---- MODULE Spec2Model ----
(***************************************************************************)
(* The request-dispatch pipeline of core/handlers/base.py and              *)
(* core/handlers/exception.py: load_middleware builds the middleware       *)
(* chain, get_response / get_response_async drive one request through it,  *)
(* _get_response / _get_response_async resolve and call the view and apply *)
(* the view, template-response and exception middleware, and               *)
(* convert_exception_to_response turns exceptions into responses.          *)
(***************************************************************************)
EXTENDS Integers, Sequences, FiniteSets, TLC

\* Longest settings.MIDDLEWARE list explored.
MaxMW == 2

\* Python's None as the value of a handler attribute that holds a callable or
\* a list of callables once load_middleware has run.
None == <<>>

(***************************************************************************)
(* settings.MIDDLEWARE: middleware classes.  A class carries the two       *)
(* capability flags read by load_middleware, what its factory does when    *)
(* called with the downstream handler (returns an instance, raises         *)
(* MiddlewareNotUsed, returns None) and, for an instance, the hook methods *)
(* hasattr() finds on it.                                                  *)
(***************************************************************************)
HookKinds == {"process_view", "process_template_response", "process_exception"}

FactoryOutcomes == {"instance", "MiddlewareNotUsed", "None"}

Descriptors ==
    {d \in [sync_capable : BOOLEAN, async_capable : BOOLEAN,
            factory : FactoryOutcomes, hooks : SUBSET HookKinds] :
        d.factory # "instance" => d.hooks = {}}

\* Classes load_middleware accepts: a capability flag set, no None factory.
LoadableDescriptors ==
    {d \in Descriptors :
        (d.sync_capable \/ d.async_capable) /\ d.factory # "None"}

ListsOver(S) == UNION {[1..n -> S] : n \in 0..MaxMW}

(***************************************************************************)
(* Callables.  A callable is the sequence of its layers, outermost first:  *)
(* the wrappers of convert_exception_to_response ("guard"), sync_to_async  *)
(* and async_to_sync, middleware instances ("stage", mw its index in       *)
(* settings.MIDDLEWARE) and at the bottom _get_response or                 *)
(* _get_response_async ("core"), or a hook method.  is_async is what       *)
(* iscoroutinefunction() says of the layer.                                *)
(***************************************************************************)
Layer(t, mw, is_async) == [t |-> t, mw |-> mw, is_async |-> is_async]

iscoroutinefunction(method) == Head(method).is_async

sync_to_async(method) == <<Layer("sync_to_async", 0, TRUE)>> \o method

async_to_sync(method) == <<Layer("async_to_sync", 0, FALSE)>> \o method

\* The handler handed on without the wrapper.
convert_exception_to_response_unguarded(get_response) == get_response

\* exception.py: the wrapper is a coroutine function iff the wrapped one is.
convert_exception_to_response(get_response) ==
    <<Layer("guard", 0, iscoroutinefunction(get_response))>> \o get_response

\* The method is handed back as it is, whatever its mode.
adapt_method_mode_leaving_alone(is_async, method, method_is_async) == method

\* base.py adapt_method_mode(is_async, method, method_is_async).
adapt_method_mode(is_async, method, method_is_async) ==
    IF is_async
    THEN IF ~method_is_async THEN sync_to_async(method) ELSE method
    ELSE IF method_is_async THEN async_to_sync(method) ELSE method

\* adapt_method_mode with method_is_async=None: iscoroutinefunction(method).
adapt_hook_mode(is_async, method) ==
    adapt_method_mode(is_async, method, iscoroutinefunction(method))

\* A bound hook method of the instance built from settings.MIDDLEWARE[mw].
\* Hook methods are plain (synchronous) functions.
HookMethod(mw, kind) == <<Layer(kind, mw, FALSE)>>

\* The middleware whose hook an entry of a hook list calls.
HookOwner(method) == method[Len(method)].mw

\* _get_response_async if is_async else _get_response.
GetResponseCore(is_async) == <<Layer("core", 0, is_async)>>

\* The mode decision taken on the overall mode is_async instead of the mode
\* of the handler built so far.
middleware_mode_by_overall(middleware, handler_is_async, is_async) ==
    IF ~is_async /\ middleware.sync_capable
    THEN FALSE
    ELSE middleware.async_capable

\* load_middleware lines 64-74: the mode a middleware runs in.
middleware_mode(middleware, handler_is_async, is_async) ==
    IF ~handler_is_async /\ middleware.sync_capable
    THEN FALSE
    ELSE middleware.async_capable

\* State of load_middleware's loop: the locals handler and handler_is_async,
\* the three hook lists, and how the call ended ("running" until it ends).
LoadStart(is_async) ==
    [outcome |-> "running",
     handler |-> convert_exception_to_response(GetResponseCore(is_async)),
     handler_is_async |-> is_async,
     view |-> <<>>, template_response |-> <<>>, exception |-> <<>>]

\* process_view registered with append, like the other two hooks.
register_process_view_appended(hooks, method) == Append(hooks, method)

\* Lines 101-105: self._view_middleware.insert(0, ...)
register_process_view(hooks, method) == <<method>> \o hooks

\* process_template_response registered with insert(0, ...), like process_view.
register_process_template_response_inserted(hooks, method) == <<method>> \o hooks

\* Lines 106-111: self._template_response_middleware.append(...)
register_process_template_response(hooks, method) == Append(hooks, method)

\* process_exception registered with insert(0, ...), like process_view.
register_process_exception_inserted(hooks, method) == <<method>> \o hooks

\* Lines 112-117: self._exception_middleware.append(...)
register_process_exception(hooks, method) == Append(hooks, method)

\* Lines 101-122: register the instance's hooks, wrap the instance.
register_instance(s, i, middleware, middleware_is_async, adapted_handler, is_async) ==
    [outcome |-> "running",
     handler |-> convert_exception_to_response(
                    <<Layer("stage", i, middleware_is_async)>> \o adapted_handler),
     handler_is_async |-> middleware_is_async,
     view |-> IF "process_view" \in middleware.hooks
              THEN register_process_view(s.view,
                       adapt_hook_mode(is_async, HookMethod(i, "process_view")))
              ELSE s.view,
     template_response |->
              IF "process_template_response" \in middleware.hooks
              THEN register_process_template_response(s.template_response,
                       adapt_hook_mode(is_async,
                           HookMethod(i, "process_template_response")))
              ELSE s.template_response,
     exception |->
              IF "process_exception" \in middleware.hooks
              THEN register_process_exception(s.exception,
                       adapt_hook_mode(FALSE, HookMethod(i, "process_exception")))
              ELSE s.exception]

\* Lines 86-92 as they were before the handler was kept on MiddlewareNotUsed:
\* the adapted handler leaks into the next iteration.
skip_not_used_keeping_adapted(s, adapted_handler) ==
    [s EXCEPT !.handler = adapted_handler]

\* Lines 86-92: MiddlewareNotUsed; continue with handler untouched.
skip_not_used(s, adapted_handler) == s

\* One iteration of the for loop (lines 62-122) for settings.MIDDLEWARE[i].
load_iteration(s, i, middleware, is_async) ==
    LET middleware_is_async ==
            middleware_mode(middleware, s.handler_is_async, is_async)
        adapted_handler ==
            adapt_method_mode(middleware_is_async, s.handler, s.handler_is_async)
    IN  IF ~middleware.sync_capable /\ ~middleware.async_capable
        THEN [s EXCEPT !.outcome = "RuntimeError"]
        ELSE IF middleware.factory = "MiddlewareNotUsed"
        THEN skip_not_used(s, adapted_handler)
        ELSE IF middleware.factory = "None"
        THEN [s EXCEPT !.outcome = "ImproperlyConfigured",
                       !.handler = adapted_handler]
        ELSE register_instance(s, i, middleware, middleware_is_async,
                               adapted_handler, is_async)

\* for middleware_path in reversed(settings.MIDDLEWARE), then lines 124-125.
RECURSIVE load_loop(_, _, _, _)
load_loop(MW, is_async, i, s) ==
    IF s.outcome # "running"
    THEN s
    ELSE IF i = 0
    THEN [s EXCEPT !.outcome = "ok",
                   !.handler = adapt_method_mode(is_async, s.handler,
                                                 s.handler_is_async)]
    ELSE load_loop(MW, is_async, i - 1, load_iteration(s, i, MW[i], is_async))

load_middleware(MW, is_async) == load_loop(MW, is_async, Len(MW), LoadStart(is_async))

(***************************************************************************)
(* Values a view, hook, middleware or error handler hands back.  Every     *)
(* value is a record of the same shape: tag says what it is (None, an      *)
(* empty but non-None object, an unawaited coroutine, an HttpResponse, a   *)
(* raised exception), by and mw say who produced it, render whether it has *)
(* a callable render (a TemplateResponse), kind the exception class.       *)
(***************************************************************************)
Value(tag, by, mw, status, render, kind) ==
    [tag |-> tag, by |-> by, mw |-> mw, status |-> status, render |-> render,
     render_is_async |-> FALSE, is_rendered |-> FALSE, kind |-> kind,
     _resource_closers |-> <<>>]

NoneValue == Value("None", "", 0, 0, FALSE, "")

Falsy(by, mw) == Value("Falsy", by, mw, 0, FALSE, "")

Coroutine(by, mw) == Value("Coroutine", by, mw, 0, FALSE, "")

HttpResponse(by, mw, status) == Value("Response", by, mw, status, FALSE, "")

TemplateResponse(by, mw, status) == Value("Response", by, mw, status, TRUE, "")

\* A response whose render method is a coroutine function.
AsyncTemplateResponse(by, mw, status) ==
    [TemplateResponse(by, mw, status) EXCEPT !.render_is_async = TRUE]

Raised(kind, by, mw) == Value("Exception", by, mw, 0, FALSE, kind)

IsException(v) == v.tag = "Exception"

\* Python truthiness of a returned value: "if response:".
\* "if response is not None:" in place of "if response:".
Truthy_unless_none(v) == v.tag # "None"

Truthy(v) == v.tag \in {"Response", "Coroutine"}

\* hasattr(response, "render") and callable(response.render)
HasRender(v) == v.tag = "Response" /\ v.render

\* Exception classes a view raises.  The subclasses of SuspiciousOperation
\* raised when a request body is over a limit; SuspiciousOperation and its
\* subclasses; "Exception" stands for any class with no 4xx rule.
BodyLimitKinds == {"RequestDataTooBig", "TooManyFieldsSent", "TooManyFilesSent"}

SuspiciousKinds == {"SuspiciousOperation"} \cup BodyLimitKinds

ExceptionKinds ==
    {"Http404", "PermissionDenied", "MultiPartParserError", "BadRequest",
     "Exception"} \cup SuspiciousKinds

\* Database aliases of connections.settings.
Aliases == {"default", "replica"}

\* A resolved view: whether it is a coroutine function, and its
\* _non_atomic_requests attribute.
Views == [is_coroutine : BOOLEAN, _non_atomic_requests : SUBSET Aliases]

(***************************************************************************)
(* base.py check_response(response, callback, name): "ok", or the          *)
(* ValueError it raises, whose message starts with the name of the view    *)
(* or of the hook (kept in by and mw).                                     *)
(***************************************************************************)
check_response_ignoring_coroutine(response, by, mw) ==
    IF response.tag # "None"
    THEN response
    ELSE Raised("ValueError", by, mw)

check_response(response, by, mw) ==
    IF ~(response.tag = "None" \/ response.tag = "Coroutine")
    THEN response
    ELSE Raised("ValueError", by, mw)

(***************************************************************************)
(* base.py make_view_atomic(view): the aliases the view is wrapped in      *)
(* transaction.atomic for, or the RuntimeError for a coroutine view.       *)
(***************************************************************************)
AtomicAliases(view, atomic_requests) ==
    {alias \in Aliases :
        alias \in atomic_requests /\ alias \notin view._non_atomic_requests}

\* connections.settings.items(): the aliases in the order of the loop.
DatabaseAliases == <<"default", "replica">>

\* The test on line 415 without the view's exclusions.
wraps_alias_ignoring_exclusions(view, alias, atomic_requests) ==
    alias \in atomic_requests

\* Line 415: settings_dict["ATOMIC_REQUESTS"] and alias not in
\* non_atomic_requests.
wraps_alias(view, alias, atomic_requests) ==
    alias \in atomic_requests /\ alias \notin view._non_atomic_requests

\* The loop of lines 414-421 from the k-th alias on, for a view that is not
\* a coroutine function: the aliases of the transaction.atomic wrappers put
\* around the view, outermost first.
RECURSIVE atomic_wrappers(_, _, _)
atomic_wrappers(view, atomic_requests, k) ==
    IF k > Len(DatabaseAliases)
    THEN <<>>
    ELSE atomic_wrappers(view, atomic_requests, k + 1)
         \o (IF wraps_alias(view, DatabaseAliases[k], atomic_requests)
             THEN <<DatabaseAliases[k]>>
             ELSE <<>>)

make_view_atomic_skipping_coroutines(view, atomic_requests) ==
    [raised |-> FALSE,
     wrappers |-> IF view.is_coroutine THEN <<>>
                  ELSE atomic_wrappers(view, atomic_requests, 1),
     atomic |-> IF view.is_coroutine THEN {}
                ELSE AtomicAliases(view, atomic_requests)]

make_view_atomic(view, atomic_requests) ==
    IF AtomicAliases(view, atomic_requests) # {} /\ view.is_coroutine
    THEN [raised |-> TRUE, wrappers |-> <<>>, atomic |-> {}]
    ELSE [raised |-> FALSE,
          wrappers |-> atomic_wrappers(view, atomic_requests, 1),
          atomic |-> AtomicAliases(view, atomic_requests)]

(***************************************************************************)
(* exception.py.  An error handler resolved by resolve_error_handler       *)
(* returns an HttpResponse, returns an unrendered TemplateResponse, or     *)
(* raises (or its resolution does).  The 500 handler and the technical     *)
(* debug pages return an HttpResponse.  A result is the value handed back  *)
(* (a response, or the exception raised) with what was signalled, logged   *)
(* and marked on the way.                                                  *)
(***************************************************************************)
ErrorHandlerBehaviours == {"response", "template_response", "raises"}

Classified(value, signals, security_log, request_log, post_parse_error) ==
    [value |-> value, signals |-> signals, security_log |-> security_log,
     request_log |-> request_log, post_parse_error |-> post_parse_error,
     handler_raised |-> FALSE]

\* handle_uncaught_exception never re-raising.
handle_uncaught_exception_never_reraising(exc, DEBUG, DEBUG_PROPAGATE_EXCEPTIONS) ==
    IF DEBUG
    THEN HttpResponse("technical_500_response", 0, 500)
    ELSE HttpResponse("handler500", 0, 500)

\* handle_uncaught_exception re-raising whatever the settings say.
handle_uncaught_exception_reraising(exc, DEBUG, DEBUG_PROPAGATE_EXCEPTIONS) == exc

\* handle_uncaught_exception: the bare raise re-raises the exception being
\* handled, exc.
handle_uncaught_exception(exc, DEBUG, DEBUG_PROPAGATE_EXCEPTIONS) ==
    IF DEBUG_PROPAGATE_EXCEPTIONS
    THEN exc
    ELSE IF DEBUG
    THEN HttpResponse("technical_500_response", 0, 500)
    ELSE HttpResponse("handler500", 0, 500)

\* get_exception_response answering 400 whatever status_code is.
get_exception_response_always_400(status_code, error_handler, DEBUG, DEBUG_PROPAGATE_EXCEPTIONS) ==
    IF error_handler = "raises"
    THEN Classified(handle_uncaught_exception(
                        Raised("Exception", "error_handler", 0),
                        DEBUG, DEBUG_PROPAGATE_EXCEPTIONS),
                    1, <<>>, <<>>, FALSE)
    ELSE Classified(Value("Response", "error_handler", 0, 400,
                          error_handler = "template_response", ""),
                    0, <<>>, <<>>, FALSE)

\* get_exception_response without its try: a failing error handler is
\* answered with a plain response of the status asked for.
get_exception_response_unguarded(status_code, error_handler, DEBUG, DEBUG_PROPAGATE_EXCEPTIONS) ==
    IF error_handler = "raises"
    THEN [Classified(HttpResponse("error_handler", 0, status_code),
                     0, <<>>, <<>>, FALSE) EXCEPT !.handler_raised = TRUE]
    ELSE Classified(Value("Response", "error_handler", 0, status_code,
                          error_handler = "template_response", ""),
                    0, <<>>, <<>>, FALSE)

\* get_exception_response(request, resolver, status_code, exception).
\* handler_raised: resolving or calling the error handler raised.
get_exception_response(status_code, error_handler, DEBUG, DEBUG_PROPAGATE_EXCEPTIONS) ==
    IF error_handler = "raises"
    THEN [Classified(handle_uncaught_exception(
                         Raised("Exception", "error_handler", 0),
                         DEBUG, DEBUG_PROPAGATE_EXCEPTIONS),
                     1, <<>>, <<>>, FALSE) EXCEPT !.handler_raised = TRUE]
    ELSE Classified(Value("Response", "error_handler", 0, status_code,
                          error_handler = "template_response", ""),
                    0, <<>>, <<>>, FALSE)

\* The response is returned as the branch left it.
force_render_skipped(c) == c

\* Lines 156-160: force a TemplateResponse to be rendered.
force_render(c) ==
    IF c.value.tag = "Response" /\ ~c.value.is_rendered /\ c.value.render
    THEN [c EXCEPT !.value.is_rendered = TRUE]
    ELSE c

\* log_response(...) after the response was obtained: skipped when the
\* statement before it raised.
with_log(c, message) ==
    IF IsException(c.value)
    THEN c
    ELSE [c EXCEPT !.request_log = Append(@, message)]

\* The mark set for RequestDataTooBig only.
marks_post_parse_error_data_only(exc) == exc.kind = "RequestDataTooBig"

\* Lines 118-121: whether request._mark_post_parse_error() is called.
marks_post_parse_error(exc) == exc.kind \in BodyLimitKinds

\* response_for_exception(request, exc), lines 67-154.
classify(exc, error_handler, DEBUG, DEBUG_PROPAGATE_EXCEPTIONS) ==
    LET by_handler(status_code) ==
            get_exception_response(status_code, error_handler, DEBUG,
                                   DEBUG_PROPAGATE_EXCEPTIONS)
        technical(name, status_code) ==
            Classified(HttpResponse(name, 0, status_code), 0, <<>>, <<>>, FALSE)
    IN  IF exc.kind = "Http404"
        THEN IF DEBUG THEN technical("technical_404_response", 404)
             ELSE by_handler(404)
        ELSE IF exc.kind = "PermissionDenied"
        THEN with_log(by_handler(403), "Forbidden (Permission denied)")
        ELSE IF exc.kind = "MultiPartParserError"
        THEN with_log(by_handler(400), "Bad request (Unable to parse request body)")
        ELSE IF exc.kind = "BadRequest"
        THEN with_log(IF DEBUG THEN technical("technical_500_response", 400)
                      ELSE by_handler(400), "BadRequest")
        ELSE IF exc.kind \in SuspiciousKinds
        THEN LET c == IF DEBUG THEN technical("technical_500_response", 400)
                      ELSE by_handler(400)
             IN  [c EXCEPT !.security_log = <<<<"django.security", exc.kind>>>>,
                           !.post_parse_error = marks_post_parse_error(exc)]
        ELSE with_log(
                 Classified(handle_uncaught_exception(exc, DEBUG,
                                DEBUG_PROPAGATE_EXCEPTIONS),
                            1, <<>>, <<>>, FALSE),
                 "reason_phrase")

response_for_exception(exc, error_handler, DEBUG, DEBUG_PROPAGATE_EXCEPTIONS) ==
    force_render(classify(exc, error_handler, DEBUG, DEBUG_PROPAGATE_EXCEPTIONS))

VARIABLES
    MIDDLEWARE,                     \* settings.MIDDLEWARE
    DEBUG,                          \* settings.DEBUG
    DEBUG_PROPAGATE_EXCEPTIONS,     \* settings.DEBUG_PROPAGATE_EXCEPTIONS
    ATOMIC_REQUESTS,                \* aliases whose settings_dict["ATOMIC_REQUESTS"] is set
    urlpatterns,                    \* the views the resolver of ROOT_URLCONF finds
    URLCONFS,                       \* the URLconf modules a request.urlconf names
    _view_middleware,               \* BaseHandler._view_middleware
    _template_response_middleware,  \* BaseHandler._template_response_middleware
    _exception_middleware,          \* BaseHandler._exception_middleware
    _middleware_chain,              \* BaseHandler._middleware_chain
    load_call,                      \* the last load_middleware call: its
                                    \* is_async argument, the
                                    \* settings.MIDDLEWARE it read and how
                                    \* it ended
    req,                            \* the requests being handled
    wrapper,                        \* a BaseDatabaseWrapper
    wrapper_calls,                  \* the calls made on it so far
    stream,                         \* a LimitedStream and the stream it wraps
    stream_calls,                   \* the reads made on it so far
    node,                           \* a tree.Node
    node_calls                      \* the add calls made on it so far

settingsVars == <<MIDDLEWARE, DEBUG, DEBUG_PROPAGATE_EXCEPTIONS, ATOMIC_REQUESTS,
                  urlpatterns, URLCONFS>>

handlerVars == <<_view_middleware, _template_response_middleware,
                 _exception_middleware, _middleware_chain>>

\* The objects outside the request pipeline.
componentVars == <<wrapper, wrapper_calls, stream, stream_calls,
                   node, node_calls>>

vars == <<settingsVars, handlerVars, load_call, req, componentVars>>

NoLoad == [is_async |-> FALSE, MIDDLEWARE |-> <<>>, outcome |-> "never"]

NoView == [is_coroutine |-> FALSE, _non_atomic_requests |-> {}]

\* settings.ROOT_URLCONF, and the value of a URLconf that is not set: the
\* thread's URLconf after set_urlconf(None), a request without urlconf.
ROOT_URLCONF == "ROOT_URLCONF"

NoUrlconf == "None"

(***************************************************************************)
(* One request.  pc and pos (the layer of _middleware_chain in control)    *)
(* say where its control is; response is the value being handed up or      *)
(* down.  frame is the running call of _get_response: its locals and what  *)
(* the call has done.  The rest is what the request has done so far: the   *)
(* calls made (trace), whether the view raised, whether check_response     *)
(* raised (invalid_result), what                                           *)
(* response_for_exception signalled, logged and marked, and                *)
(* get_response's log lines and result.                                    *)
(***************************************************************************)
\* No call of _get_response is running.
NoFrame ==
    [callback |-> NoView,          \* the resolved view
     i |-> 0,                      \* index of the running hook loop
     exc |-> NoneValue,            \* e of the except clause being run
     try_block |-> "",             \* the try block e was raised in
     short_circuit |-> NoneValue,  \* the response a process_view hook returned
     view_outcome |-> NoneValue,   \* what the view returned or raised
     held |-> NoneValue,           \* response on line 265
     template_inputs |-> <<>>,     \* what each template-response hook was given
     template_outputs |-> <<>>,    \* and what it returned
     atomic_fault |-> FALSE,       \* make_view_atomic raised
     resolver |-> NoUrlconf,       \* the URLconf resolve_request resolved in
     atomic |-> <<>>]              \* aliases of the transactions around the view

IdleRequest ==
    [pc |-> "idle", pos |-> 0, response |-> NoneValue, frame |-> NoFrame,
     trace |-> <<>>, view_raised |-> FALSE, invalid_result |-> FALSE,
     signals |-> 0, security_log |-> <<>>, request_log |-> <<>>,
     post_parse_error |-> FALSE, handler_raised |-> FALSE,
     entry_log |-> <<>>, result |-> NoneValue,
     urlconf |-> NoUrlconf,        \* request.urlconf, if the request has one
     _urlconfs |-> NoUrlconf,      \* the URLconf set for the request's thread
     entry_override |-> FALSE]     \* get_response found the thread's URLconf
                                   \* set to one of URLCONFS

(***************************************************************************)
(* BaseDatabaseWrapper: the thread that created it and the thread-sharing  *)
(* count.  Each method body runs under _thread_sharing_lock, so a call is  *)
(* one step.                                                               *)
(***************************************************************************)
Threads == {"t1", "t2", "t3"}

\* How many inc_thread_sharing calls a run makes.
MaxSharing == 3

\* self.connection is None, and a connection get_new_connection returned:
\* closes counts the close() calls made on it.
NoConnection == [is_none |-> TRUE, closes |-> 0]

NewConnection == [is_none |-> FALSE, closes |-> 0]

\* No savepoint id: what savepoint() returns when savepoints are not allowed.
NoSid == <<>>

\* __init__, lines 67-121, run by thread t, with settings_dict["AUTOCOMMIT"]
\* and features.uses_savepoints as they are by default.
NewWrapper(t) ==
    [_thread_ident |-> t, _thread_sharing_count |-> 0,
     connection |-> NoConnection,
     settings_dict |-> [AUTOCOMMIT |-> TRUE],
     features |-> [uses_savepoints |-> TRUE],
     autocommit |-> FALSE,
     in_atomic_block |-> FALSE,
     savepoint_state |-> 0,
     savepoint_ids |-> <<>>,
     atomic_blocks |-> <<>>,
     needs_rollback |-> FALSE,
     closed_in_transaction |-> FALSE,
     errors_occurred |-> FALSE,
     run_on_commit |-> <<>>,
     run_commit_hooks_on_set_autocommit_on |-> FALSE]

\* The calls made on the wrapper: how many inc_thread_sharing and returned
\* dec_thread_sharing calls, how many on_commit calls, and the last call:
\* what it raised, the callbacks it called and those whose failure it
\* logged.
NoCalls == [inc |-> 0, dec |-> 0, registered |-> 0,
            last |-> [method |-> "", thread |-> "", raised |-> "",
                      called |-> <<>>, logged |-> <<>>]]

Called_on_wrapper(method, t, raised) ==
    [wrapper_calls EXCEPT
        !.last = [NoCalls.last EXCEPT !.method = method, !.thread = t,
                                      !.raised = raised],
        !.inc = IF method = "inc_thread_sharing" THEN @ + 1 ELSE @,
        !.dec = IF method = "dec_thread_sharing" /\ raised = ""
                THEN @ + 1 ELSE @]

\* Sharing is allowed from the first call on, whatever the count.
allow_thread_sharing_at_zero(w) == w._thread_sharing_count >= 0

\* The property allow_thread_sharing.
allow_thread_sharing(w) == w._thread_sharing_count > 0

inc_thread_sharing(t) ==
    /\ wrapper_calls.inc < MaxSharing
    /\ wrapper' = [wrapper EXCEPT !._thread_sharing_count = @ + 1]
    /\ wrapper_calls' = Called_on_wrapper("inc_thread_sharing", t, "")

\* dec_thread_sharing without the test of line 660.
dec_thread_sharing_unguarded(t) ==
    /\ wrapper' = [wrapper EXCEPT !._thread_sharing_count = @ - 1]
    /\ wrapper_calls' = Called_on_wrapper("dec_thread_sharing", t, "")

dec_thread_sharing(t) ==
    IF wrapper._thread_sharing_count <= 0
    THEN /\ wrapper_calls' =
                Called_on_wrapper("dec_thread_sharing", t, "RuntimeError")
         /\ UNCHANGED wrapper
    ELSE /\ wrapper' = [wrapper EXCEPT !._thread_sharing_count = @ - 1]
         /\ wrapper_calls' = Called_on_wrapper("dec_thread_sharing", t, "")

\* What validate_thread_sharing raises when thread t calls it ("" when it
\* returns).
validate_thread_sharing_raises(w, t) ==
    IF ~(allow_thread_sharing(w) \/ w._thread_ident = t)
    THEN "DatabaseError"
    ELSE ""

validate_thread_sharing(t) ==
    /\ wrapper_calls' =
           Called_on_wrapper("validate_thread_sharing", t,
                             validate_thread_sharing_raises(wrapper, t))
    /\ UNCHANGED wrapper

(***************************************************************************)
(* BaseDatabaseWrapper: connection, transaction state and the callbacks    *)
(* of on_commit.  A method is an operator on a call: the wrapper as the    *)
(* method leaves it, the callbacks it called, the failures it logged, what *)
(* it raised ("" when it returned) and what it returned.  The backend      *)
(* methods (get_new_connection, _set_autocommit and the methods of the     *)
(* connection) either work or raise; fault says which one raises.          *)
(***************************************************************************)
\* How many on_commit calls and how many savepoints a run makes.
MaxCallbacks == 2

MaxSavepoints == 2

\* No backend method raises, get_new_connection raises, or the backend
\* method the called method is a wrapper of raises.
BackendFaults == {"", "connect", "call"}

\* The functions given to on_commit: the k-th call gives a function of its
\* own, or something that is not callable.
Funcs(k) == [id : {k}, callable : BOOLEAN]

\* A call on wrapper w during which the functions in failing raise when
\* they are called.
Call(w, failing) ==
    [w |-> w, failing |-> failing, called |-> <<>>, logged |-> <<>>,
     raised |-> "", result |-> NoSid]

Raise(c, exception) == [c EXCEPT !.raised = exception]

\* A backend method raised inside wrap_database_errors.
BackendRaise(c) ==
    Raise([c EXCEPT !.w.errors_occurred = TRUE], "OperationalError")

\* The queue kept when a callback that is not robust fails: the callbacks
\* behind it are put back.
RECURSIVE run_hooks_keeping_rest(_, _)
run_hooks_keeping_rest(current_run_on_commit, c) ==
    IF current_run_on_commit = <<>>
    THEN c
    ELSE LET hook == Head(current_run_on_commit)
             ran == [c EXCEPT !.called = Append(@, hook.func.id)]
         IN  IF hook.func.id \notin c.failing
             THEN run_hooks_keeping_rest(Tail(current_run_on_commit), ran)
             ELSE IF hook.robust
             THEN run_hooks_keeping_rest(Tail(current_run_on_commit),
                      [ran EXCEPT !.logged = Append(@, hook.func.id)])
             ELSE Raise([ran EXCEPT !.w.run_on_commit =
                                        Tail(current_run_on_commit)],
                        "CallbackError")

\* Lines 787-800: the loop that pops and calls the callbacks.  A robust
\* callback that raises is logged; any other that raises ends the loop and
\* the method, and current_run_on_commit is lost with them.
RECURSIVE run_hooks(_, _)
run_hooks(current_run_on_commit, c) ==
    IF current_run_on_commit = <<>>
    THEN c
    ELSE LET hook == Head(current_run_on_commit)
             ran == [c EXCEPT !.called = Append(@, hook.func.id)]
         IN  IF hook.func.id \notin c.failing
             THEN run_hooks(Tail(current_run_on_commit), ran)
             ELSE IF hook.robust
             THEN run_hooks(Tail(current_run_on_commit),
                            [ran EXCEPT !.logged = Append(@, hook.func.id)])
             ELSE Raise(ran, "CallbackError")

\* run_and_clear_commit_hooks, lines 783-800.
run_and_clear_commit_hooks_call(c) ==
    IF c.w.in_atomic_block
    THEN Raise(c, "TransactionManagementError")
    ELSE run_hooks(c.w.run_on_commit, [c EXCEPT !.w.run_on_commit = <<>>])

\* set_autocommit from line 505 on: the connection is there and no atomic
\* block is active.
set_autocommit_connected(c, autocommit, fails) ==
    IF fails
    THEN BackendRaise(c)
    ELSE LET set == [c EXCEPT !.w.autocommit = autocommit]
         IN  IF autocommit /\ set.w.run_commit_hooks_on_set_autocommit_on
             THEN LET ran == run_and_clear_commit_hooks_call(set)
                  IN  IF ran.raised # ""
                      THEN ran
                      ELSE [ran EXCEPT
                               !.w.run_commit_hooks_on_set_autocommit_on = FALSE]
             ELSE set

\* connect, lines 249-274.
connect_call(c, fault) ==
    LET reset == [c EXCEPT !.w.in_atomic_block = FALSE,
                           !.w.savepoint_ids = <<>>,
                           !.w.atomic_blocks = <<>>,
                           !.w.needs_rollback = FALSE,
                           !.w.closed_in_transaction = FALSE,
                           !.w.errors_occurred = FALSE]
    IN  IF fault = "connect"
        THEN Raise(reset, "OperationalError")
        ELSE LET set == set_autocommit_connected(
                            [reset EXCEPT !.w.connection = NewConnection],
                            c.w.settings_dict.AUTOCOMMIT, FALSE)
             IN  IF set.raised # ""
                 THEN set
                 ELSE [set EXCEPT !.w.run_on_commit = <<>>]

\* ensure_connection, lines 284-288.
ensure_connection_call(c, fault) ==
    IF c.w.connection = NoConnection
    THEN LET connected == connect_call(c, fault)
         IN  IF connected.raised = "OperationalError"
             THEN [connected EXCEPT !.w.errors_occurred = TRUE]
             ELSE connected
    ELSE c

\* set_autocommit, lines 485-522.
set_autocommit_call(c, autocommit, fault) ==
    IF c.w.in_atomic_block
    THEN Raise(c, "TransactionManagementError")
    ELSE LET connected == ensure_connection_call(c, fault)
         IN  IF connected.raised # ""
             THEN connected
             ELSE set_autocommit_connected(connected, autocommit,
                                           fault = "call")

\* commit, lines 352-360.
commit_call(c, t, fault) ==
    IF validate_thread_sharing_raises(c.w, t) # ""
    THEN Raise(c, "DatabaseError")
    ELSE IF c.w.in_atomic_block
    THEN Raise(c, "TransactionManagementError")
    ELSE IF c.w.connection # NoConnection /\ fault = "call"
    THEN BackendRaise(c)
    ELSE [c EXCEPT !.w.errors_occurred = FALSE,
                   !.w.run_commit_hooks_on_set_autocommit_on = TRUE]

\* rollback, lines 362-371.
rollback_call(c, t, fault) ==
    IF validate_thread_sharing_raises(c.w, t) # ""
    THEN Raise(c, "DatabaseError")
    ELSE IF c.w.in_atomic_block
    THEN Raise(c, "TransactionManagementError")
    ELSE IF c.w.connection # NoConnection /\ fault = "call"
    THEN BackendRaise(c)
    ELSE [c EXCEPT !.w.errors_occurred = FALSE,
                   !.w.needs_rollback = FALSE,
                   !.w.run_on_commit = <<>>]

\* close without the test of line 382: the connection is closed whenever
\* there is one.
close_call_closing_again(c, t, fault) ==
    IF validate_thread_sharing_raises(c.w, t) # ""
    THEN Raise(c, "DatabaseError")
    ELSE LET cleared == [c EXCEPT !.w.run_on_commit = <<>>]
         IN  IF cleared.w.connection = NoConnection
             THEN cleared
             ELSE LET closed == [cleared EXCEPT !.w.connection.closes = @ + 1]
                      after ==
                          IF closed.w.in_atomic_block
                          THEN [closed EXCEPT
                                   !.w.closed_in_transaction = TRUE,
                                   !.w.needs_rollback = TRUE]
                          ELSE [closed EXCEPT !.w.connection = NoConnection]
                  IN  IF fault = "call" THEN BackendRaise(after) ELSE after

\* close, lines 373-391: _close() in a try whose finally clause runs
\* whether or not connection.close() raised.
close_call(c, t, fault) ==
    IF validate_thread_sharing_raises(c.w, t) # ""
    THEN Raise(c, "DatabaseError")
    ELSE LET cleared == [c EXCEPT !.w.run_on_commit = <<>>]
         IN  IF cleared.w.closed_in_transaction
                    \/ cleared.w.connection = NoConnection
             THEN cleared
             ELSE LET closed == [cleared EXCEPT !.w.connection.closes = @ + 1]
                      after ==
                          IF closed.w.in_atomic_block
                          THEN [closed EXCEPT
                                   !.w.closed_in_transaction = TRUE,
                                   !.w.needs_rollback = TRUE]
                          ELSE [closed EXCEPT !.w.connection = NoConnection]
                  IN  IF fault = "call" THEN BackendRaise(after) ELSE after

\* get_autocommit, lines 480-483: the call after ensure_connection; what it
\* returns is the autocommit attribute then.
get_autocommit_call(c, fault) == ensure_connection_call(c, fault)

\* _savepoint_allowed, line 409:
\* self.features.uses_savepoints and not self.get_autocommit()
_savepoint_allowed(c, fault) ==
    IF ~c.w.features.uses_savepoints
    THEN [c |-> c, allowed |-> FALSE]
    ELSE LET got == get_autocommit_call(c, fault)
         IN  [c |-> got, allowed |-> got.raised = "" /\ ~got.w.autocommit]

\* The savepoint id made on lines 422-425 by thread t.
Sid(t, savepoint_state) == <<t, savepoint_state>>

\* savepoint, lines 413-429.
savepoint_call(c, t, fault) ==
    LET a == _savepoint_allowed(c, fault)
        counted == [a.c EXCEPT !.w.savepoint_state = @ + 1]
    IN  IF ~a.allowed
        THEN a.c
        ELSE IF validate_thread_sharing_raises(counted.w, t) # ""
        THEN Raise(counted, "DatabaseError")
        ELSE IF fault = "call"
        THEN BackendRaise(counted)
        ELSE [counted EXCEPT !.result = Sid(t, counted.w.savepoint_state)]

\* Line 446: the callbacks kept are those registered under savepoint sid.
without_callbacks_of_inverted(run_on_commit, sid) ==
    SelectSeq(run_on_commit, LAMBDA hook : sid \in hook.sids)

\* Lines 445-449: run_on_commit without the callbacks registered while
\* savepoint sid was active.
without_callbacks_of(run_on_commit, sid) ==
    SelectSeq(run_on_commit, LAMBDA hook : sid \notin hook.sids)

\* savepoint_rollback, lines 431-450.
savepoint_rollback_call(c, t, sid, fault) ==
    LET a == _savepoint_allowed(c, fault)
    IN  IF ~a.allowed
        THEN a.c
        ELSE IF validate_thread_sharing_raises(a.c.w, t) # ""
        THEN Raise(a.c, "DatabaseError")
        ELSE IF fault = "call"
        THEN BackendRaise(a.c)
        ELSE [a.c EXCEPT !.w.run_on_commit = without_callbacks_of(@, sid)]

\* savepoint_commit, lines 452-461.
savepoint_commit_call(c, t, sid, fault) ==
    LET a == _savepoint_allowed(c, fault)
    IN  IF ~a.allowed
        THEN a.c
        ELSE IF validate_thread_sharing_raises(a.c.w, t) # ""
        THEN Raise(a.c, "DatabaseError")
        ELSE IF fault = "call"
        THEN BackendRaise(a.c)
        ELSE a.c

\* Lines 774-781: func is called at once; a robust func that raises is
\* logged.
call_now(c, func, robust) ==
    LET ran == [c EXCEPT !.called = Append(@, func.id)]
    IN  IF func.id \notin c.failing
        THEN ran
        ELSE IF robust
        THEN [ran EXCEPT !.logged = Append(@, func.id)]
        ELSE Raise(ran, "CallbackError")

\* on_commit that queues func whenever autocommit is off.
on_commit_call_queueing(c, func, robust, fault) ==
    IF ~func.callable
    THEN Raise(c, "TypeError")
    ELSE LET got == IF c.w.in_atomic_block THEN c
                    ELSE get_autocommit_call(c, fault)
         IN  IF got.raised # ""
             THEN got
             ELSE IF c.w.in_atomic_block \/ ~got.w.autocommit
             THEN [got EXCEPT !.w.run_on_commit =
                      Append(@, [sids |-> {got.w.savepoint_ids[k] :
                                              k \in DOMAIN got.w.savepoint_ids},
                                 func |-> func, robust |-> robust])]
             ELSE call_now(got, func, robust)

\* on_commit, lines 758-781.
on_commit_call(c, func, robust, fault) ==
    IF ~func.callable
    THEN Raise(c, "TypeError")
    ELSE IF c.w.in_atomic_block
    THEN [c EXCEPT !.w.run_on_commit =
             Append(@, [sids |-> {c.w.savepoint_ids[k] :
                                     k \in DOMAIN c.w.savepoint_ids},
                        func |-> func, robust |-> robust])]
    ELSE LET got == get_autocommit_call(c, fault)
         IN  IF got.raised # ""
             THEN got
             ELSE IF ~got.w.autocommit
             THEN Raise(got, "TransactionManagementError")
             ELSE call_now(got, func, robust)

\* The method called by thread t ended as call c says.
Ended(method, t, c) ==
    /\ wrapper' = c.w
    /\ wrapper_calls' =
           [wrapper_calls EXCEPT
               !.registered = IF method = "on_commit" THEN @ + 1 ELSE @,
               !.last = [method |-> method, thread |-> t, raised |-> c.raised,
                         called |-> c.called, logged |-> c.logged]]

\* The functions a call may find failing: those queued, and the one given.
Queued == {wrapper.run_on_commit[k].func.id : k \in DOMAIN wrapper.run_on_commit}

connect(t, fault) ==
    \E failing \in SUBSET Queued :
        Ended("connect", t, connect_call(Call(wrapper, failing), fault))

set_autocommit(t, autocommit, fault) ==
    \E failing \in SUBSET Queued :
        Ended("set_autocommit", t,
              set_autocommit_call(Call(wrapper, failing), autocommit, fault))

commit(t, fault) ==
    Ended("commit", t, commit_call(Call(wrapper, {}), t, fault))

rollback(t, fault) ==
    Ended("rollback", t, rollback_call(Call(wrapper, {}), t, fault))

close(t, fault) ==
    Ended("close", t, close_call(Call(wrapper, {}), t, fault))

savepoint(t, fault) ==
    /\ wrapper.savepoint_state < MaxSavepoints
    /\ Ended("savepoint", t, savepoint_call(Call(wrapper, {}), t, fault))

\* The savepoint ids given out so far.
Sids == {Sid(t, n) : t \in Threads, n \in 1..wrapper.savepoint_state}

savepoint_rollback(t, sid, fault) ==
    Ended("savepoint_rollback", t,
          savepoint_rollback_call(Call(wrapper, {}), t, sid, fault))

savepoint_commit(t, sid, fault) ==
    Ended("savepoint_commit", t,
          savepoint_commit_call(Call(wrapper, {}), t, sid, fault))

on_commit(t, func, robust, fault) ==
    /\ wrapper_calls.registered < MaxCallbacks
    /\ \E failing \in SUBSET {func.id} :
         Ended("on_commit", t,
               on_commit_call(Call(wrapper, failing), func, robust, fault))

run_and_clear_commit_hooks(t) ==
    \E failing \in SUBSET Queued :
        Ended("run_and_clear_commit_hooks", t,
              run_and_clear_commit_hooks_call(Call(wrapper, failing)))

\* transaction.Atomic, which sets the attributes of lines 86-96: entering
\* the outermost block of a wrapper with an open connection turns autocommit
\* off and sets in_atomic_block; entering a block inside it makes a
\* savepoint and puts its id on savepoint_ids.
AtomicEnter(t) ==
    /\ t = wrapper._thread_ident
    /\ wrapper.connection = NewConnection
    /\ ~wrapper.closed_in_transaction
    /\ IF ~wrapper.in_atomic_block
       THEN Ended("Atomic.__enter__", t,
                  Call([wrapper EXCEPT !.autocommit = FALSE,
                                       !.in_atomic_block = TRUE,
                                       !.needs_rollback = FALSE,
                                       !.atomic_blocks = Append(@, Len(@) + 1)],
                       {}))
       ELSE /\ wrapper.savepoint_state < MaxSavepoints
            /\ wrapper.features.uses_savepoints
            /\ LET c == savepoint_call(Call(wrapper, {}), t, "")
               IN  Ended("Atomic.__enter__", t,
                         [c EXCEPT !.w.savepoint_ids = Append(@, c.result),
                                   !.w.atomic_blocks = Append(@, Len(@) + 1)])

\* Leaving a block: the innermost savepoint id is taken off savepoint_ids;
\* leaving the outermost block clears in_atomic_block and drops a
\* connection that was closed inside the block.
AtomicExit(t) ==
    /\ t = wrapper._thread_ident
    /\ wrapper.in_atomic_block
    /\ LET n == Len(wrapper.atomic_blocks)
           popped == [wrapper EXCEPT !.atomic_blocks = SubSeq(@, 1, n - 1)]
       IN  IF wrapper.savepoint_ids # <<>>
           THEN Ended("Atomic.__exit__", t,
                      Call([popped EXCEPT
                               !.savepoint_ids = SubSeq(@, 1, Len(@) - 1)],
                           {}))
           ELSE Ended("Atomic.__exit__", t,
                      Call([popped EXCEPT
                               !.in_atomic_block = FALSE,
                               !.connection = IF @ # NoConnection
                                                 /\ popped.closed_in_transaction
                                              THEN NoConnection ELSE @],
                           {}))

(***************************************************************************)
(* LimitedStream around a stream of bytes.  The wrapped stream is its       *)
(* content and the offset of the next byte to read.                        *)
(***************************************************************************)
\* The longest content of a wrapped stream, and the largest limit.
MaxBytes == 3

Bytes == {"a", "\n"}

Contents == UNION {[1..n -> Bytes] : n \in 0..MaxBytes}

\* The size argument of read and readline: None or an integer.
NoneSize == [is_none |-> TRUE, n |-> 0]

Size(n) == [is_none |-> FALSE, n |-> n]

Sizes == {NoneSize} \cup {Size(n) : n \in -2..(MaxBytes + 1)}

min(a, b) == IF a < b THEN a ELSE b

\* __init__(stream, limit), lines 23-27.
LimitedStream(content, limit) ==
    [content |-> content, offset |-> 0, _pos |-> 0, limit |-> limit]

NoReads == [returned |-> 0,
            last |-> [method |-> "", pos_before |-> 0, offset_before |-> 0,
                      data |-> <<>>, raised |-> ""]]

\* The bytes of the wrapped stream from its offset on, and the line among
\* them: up to and including the first newline.
Rest(st) == SubSeq(st.content, st.offset + 1, Len(st.content))

Line(st) ==
    LET rest == Rest(st)
        ends == {k \in 1..Len(rest) : rest[k] = "\n"}
    IN  IF ends = {} THEN rest
        ELSE SubSeq(rest, 1, CHOOSE k \in ends : \A j \in ends : k <= j)

\* stream.read(n) of the wrapped stream: at most n bytes for n >= 0.  For
\* n < 0 an in-memory stream reads to the end and a buffered reader raises
\* ValueError unless n is -1.  The result is the data, or the exception.
wrapped_read(st, n) ==
    IF n >= 0
    THEN {[data |-> SubSeq(Rest(st), 1, min(n, Len(Rest(st)))), raised |-> ""]}
    ELSE {[data |-> Rest(st), raised |-> ""]}
         \cup (IF n = -1 THEN {} ELSE {[data |-> <<>>, raised |-> "ValueError"]})

\* stream.readline(n) of the wrapped stream: the line, cut to n bytes for
\* n >= 0.
wrapped_readline(st, n) ==
    IF n >= 0
    THEN {[data |-> SubSeq(Line(st), 1, min(n, Len(Line(st)))), raised |-> ""]}
    ELSE {[data |-> Line(st), raised |-> ""]}

\* Lines 34-37 and 47-50: the size handed to the wrapped stream.
limited_size(size, _pos, limit) ==
    IF size.is_none \/ size.n = -1
    THEN limit - _pos
    ELSE min(size.n, limit - _pos)

\* Lines 32-33 and 45-46: nothing is left to read.
past_limit(_pos, limit) == _pos >= limit

\* read and readline, lines 29-53, with the wrapped call's results.
limited_call(method, size, results) ==
    LET before == [method |-> method, pos_before |-> stream._pos,
                   offset_before |-> stream.offset, data |-> <<>>,
                   raised |-> ""]
    IN  IF past_limit(stream._pos, stream.limit)
        THEN /\ stream_calls' = [stream_calls EXCEPT !.last = before]
             /\ UNCHANGED stream
        ELSE \E res \in results :
                /\ stream' = [stream EXCEPT !._pos = @ + Len(res.data),
                                           !.offset = @ + Len(res.data)]
                /\ stream_calls' =
                       [returned |-> stream_calls.returned + Len(res.data),
                        last |-> [before EXCEPT !.data = res.data,
                                                !.raised = res.raised]]

read(size) ==
    limited_call("read", size,
                 wrapped_read(stream, limited_size(size, stream._pos,
                                                   stream.limit)))

readline(size) ==
    limited_call("readline", size,
                 wrapped_readline(stream, limited_size(size, stream._pos,
                                                       stream.limit)))

(***************************************************************************)
(* tree.Node.  An object is a record with the identity of the object (id); *)
(* a leaf is any child that is not a Node.                                 *)
(***************************************************************************)
\* How many add calls a run makes.
MaxAdds == 2

Connectors == {"AND", "OR"}

Leaf(id) == [id |-> id, is_node |-> FALSE, connector |-> "", negated |-> FALSE,
             children |-> <<>>]

\* Node(children, connector, negated) as the object id.
Node(id, children, connector, negated) ==
    [id |-> id, is_node |-> TRUE, connector |-> connector, negated |-> negated,
     children |-> children]

\* __copy__: a new object with the connector, negated and children of n.
copy(n, id) == Node(id, n.children, n.connector, n.negated)

\* What add is given as data: a leaf, or a node of one or two leaves.
Data ==
    {Leaf("x")}
    \cup {Node("data", children, connector, negated) :
            children \in {<<Leaf("y")>>, <<Leaf("y"), Leaf("z")>>},
            connector \in Connectors, negated \in BOOLEAN}

NoAdds == [count |-> 0,
           last |-> [data |-> Leaf(""), conn_type |-> "", returned |-> "",
                     connector_before |-> "", negated_before |-> FALSE]]

\* Node.add(data, conn_type), lines 96-138: self afterwards and the identity
\* of the object returned.
add_result(self, data, conn_type) ==
    IF self.connector # conn_type
    THEN [self |-> [self EXCEPT !.connector = conn_type,
                                !.children = <<copy(self, "obj"), data>>],
          returned |-> data.id]
    ELSE IF /\ data.is_node
            /\ ~data.negated
            /\ (data.connector = conn_type \/ Len(data.children) = 1)
    THEN [self |-> [self EXCEPT !.children = @ \o data.children],
          returned |-> self.id]
    ELSE [self |-> [self EXCEPT !.children = Append(@, data)],
          returned |-> data.id]

add(data, conn_type) ==
    LET res == add_result(node, data, conn_type)
    IN  /\ node_calls.count < MaxAdds
        /\ node' = res.self
        /\ node_calls' =
               [count |-> node_calls.count + 1,
                last |-> [data |-> data, conn_type |-> conn_type,
                          returned |-> res.returned,
                          connector_before |-> node.connector,
                          negated_before |-> node.negated]]

\* The component objects other than the wrapper, as constructed.
NewStream == stream = LimitedStream(<<>>, 0) /\ stream_calls = NoReads

NewNode == node = Node("self", <<>>, "DEFAULT", FALSE) /\ node_calls = NoAdds

NewWrapperOfMain == wrapper = NewWrapper("t1") /\ wrapper_calls = NoCalls

\* The objects outside the request pipeline as they are constructed.
InitComponents == NewWrapperOfMain /\ NewStream /\ NewNode

InitHandler ==
    /\ _view_middleware = None
    /\ _template_response_middleware = None
    /\ _exception_middleware = None
    /\ _middleware_chain = None
    /\ load_call = NoLoad

\* Line 130 reached whatever way the loop ended.
assign_chain_unconditionally(r, chain) == r.handler

\* Line 130, self._middleware_chain = handler: reached only if nothing
\* above it raised.
assign_chain(r, chain) == IF r.outcome = "ok" THEN r.handler ELSE chain

\* load_middleware without lines 40-42: the hook lists are added to those
\* of the call before.
LoadMiddleware_accumulating(is_async) ==
    LET r == load_middleware(MIDDLEWARE, is_async)
    IN  /\ \A q \in DOMAIN req : req[q].pc = "idle"
        /\ _view_middleware' = r.view \o _view_middleware
        /\ _template_response_middleware' =
               _template_response_middleware \o r.template_response
        /\ _exception_middleware' = _exception_middleware \o r.exception
        /\ _middleware_chain' = assign_chain(r, _middleware_chain)
        /\ load_call' = [is_async |-> is_async, MIDDLEWARE |-> MIDDLEWARE,
                         outcome |-> r.outcome]
        /\ UNCHANGED <<settingsVars, req, componentVars>>

\* BaseHandler.load_middleware(is_async).  The hook lists are assigned as the
\* loop goes, so a call that raises leaves them as far as it got;
\* _middleware_chain is assigned only on line 130.
LoadMiddleware(is_async) ==
    LET r == load_middleware(MIDDLEWARE, is_async)
    IN  /\ \A q \in DOMAIN req : req[q].pc = "idle"
        /\ _view_middleware' = r.view
        /\ _template_response_middleware' = r.template_response
        /\ _exception_middleware' = r.exception
        /\ _middleware_chain' = assign_chain(r, _middleware_chain)
        /\ load_call' = [is_async |-> is_async, MIDDLEWARE |-> MIDDLEWARE,
                         outcome |-> r.outcome]
        /\ UNCHANGED <<settingsVars, req, componentVars>>

(***************************************************************************)
(* Control flow through _middleware_chain.  sync_to_async and              *)
(* async_to_sync hand calls, results and exceptions through; a guard hands *)
(* calls and results through and stops an exception; a middleware          *)
(* instance's __call__ runs code before and after calling get_response     *)
(* and lets an exception raised by get_response propagate.                 *)
(***************************************************************************)
Callees(p) ==
    {q \in (p + 1)..Len(_middleware_chain) :
        _middleware_chain[q].t \in {"stage", "core"}}

\* The layer the call made by layer p (0: by get_response) arrives in.
NextCallee(p) == CHOOSE q \in Callees(p) : \A x \in Callees(p) : q <= x

Catchers(p, v) ==
    {q \in 1..(p - 1) :
        IF IsException(v) THEN _middleware_chain[q].t = "guard"
        ELSE _middleware_chain[q].t = "stage"}

\* The layer that next acts on what layer p hands back; 0: get_response.
NextCatcher(p, v) ==
    IF Catchers(p, v) = {} THEN 0
    ELSE CHOOSE q \in Catchers(p, v) : \A x \in Catchers(p, v) : q >= x

Enter(rq, q) ==
    [rq EXCEPT !.pos = q,
               !.pc = IF _middleware_chain[q].t = "stage" THEN "stage"
                      ELSE "resolve"]

\* Layer rq.pos hands v back (returns it, or raises it).
Leave(rq, v) ==
    LET q == NextCatcher(rq.pos, v)
    IN  [rq EXCEPT !.pos = q,
                   !.response = v,
                   !.pc = IF q = 0 THEN "finish"
                          ELSE IF _middleware_chain[q].t = "guard" THEN "guard"
                          ELSE "stage_post"]

Event(rq, name, mw) == [rq EXCEPT !.trace = Append(@, <<name, mw>>)]

\* A dispatch that ends drops the handler's process_exception hooks.
Set_dropping_hooks(r, rq) ==
    /\ req' = [req EXCEPT ![r] = rq]
    /\ _exception_middleware' = IF rq.pc = "done" THEN None
                                ELSE _exception_middleware
    /\ UNCHANGED <<settingsVars, _view_middleware,
                   _template_response_middleware, _middleware_chain, load_call,
                   componentVars>>

\* Everything a dispatch works on lives on the handler object: a step of one
\* request overwrites the state of every request in flight.
Set_on_the_handler(r, rq) ==
    /\ req' = [q \in DOMAIN req |-> rq]
    /\ UNCHANGED <<settingsVars, handlerVars, load_call, componentVars>>

\* A step of request r: everything a dispatch works on is an argument or a
\* local of the running call, so the step changes the state of r only.
Set(r, rq) == /\ req' = [req EXCEPT ![r] = rq]
              /\ UNCHANGED <<settingsVars, handlerVars, load_call, componentVars>>

CoreIsAsync == _middleware_chain[Len(_middleware_chain)].is_async

(***************************************************************************)
(* _get_response / _get_response_async, from the point a value is handed   *)
(* back inside it.                                                         *)
(***************************************************************************)
\* The last two lines of each engine: _get_response returns the response as
\* it is; _get_response_async first raises RuntimeError when it is still a
\* coroutine.
returned_response(is_async, v) ==
    IF is_async /\ v.tag = "Coroutine"
    THEN Raised("RuntimeError", "_get_response_async", 0)
    ELSE v

\* _get_response / _get_response_async is about to return or raise v.
EngineLeave(rq, v) ==
    [rq EXCEPT !.pc = "engine_exit",
               !.invalid_result = @ \/ (IsException(v) /\ v.kind = "ValueError"),
               !.response = returned_response(CoreIsAsync, v)]

\* The exception raised on without process_exception_by_middleware.
Except_without_middleware(rq, e, try_block) == EngineLeave(rq, e)

\* The try around render() has no except clause: what render raises leaves
\* the engine at once.
Except_render_unhandled(rq, e, try_block) ==
    IF Len(_exception_middleware) = 0 \/ try_block = "render"
    THEN EngineLeave(rq, e)
    ELSE [rq EXCEPT !.pc = "process_exception", !.frame.i = 1,
                    !.frame.exc = e, !.frame.try_block = try_block]

\* Lines 254-262 and 278-286: the except clause, entered with exception e
\* raised in try_block ("view" or "render").
Except(rq, e, try_block) ==
    IF Len(_exception_middleware) = 0
    THEN EngineLeave(rq, e)
    ELSE [rq EXCEPT !.pc = "process_exception", !.frame.i = 1,
                    !.frame.exc = e, !.frame.try_block = try_block]

\* The except clause is left: e is unbound again.
EndExcept(rq) == [rq EXCEPT !.frame.exc = NoneValue, !.frame.try_block = ""]

\* Lines 264-277 with the template-response middleware and render kept for
\* what the view itself returned.
AfterView_for_the_view_only(rq, v) ==
    LET checked == check_response(v, "view", 0)
        held == [rq EXCEPT !.frame.held = v, !.response = v]
    IN  IF IsException(checked)
        THEN EngineLeave(held, checked)
        ELSE IF HasRender(v) /\ v.by = "view"
        THEN IF Len(_template_response_middleware) = 0
             THEN [held EXCEPT !.pc = "render"]
             ELSE [held EXCEPT !.pc = "template_response", !.frame.i = 1]
        ELSE EngineLeave(held, v)

\* Lines 264-277: check_response on the response held after the view, then
\* the template-response middleware and render for one that has render.
AfterView(rq, v) ==
    LET checked == check_response(v, "view", 0)
        held == [rq EXCEPT !.frame.held = v, !.response = v]
    IN  IF IsException(checked)
        THEN EngineLeave(held, checked)
        ELSE IF HasRender(v)
        THEN IF Len(_template_response_middleware) = 0
             THEN [held EXCEPT !.pc = "render"]
             ELSE [held EXCEPT !.pc = "template_response", !.frame.i = 1]
        ELSE EngineLeave(held, v)

\* The view called whatever the view middleware returned.
AfterViewMiddleware_always_view(rq, v) == [rq EXCEPT !.pc = "view", !.response = v]

\* Lines 247-248: the view is called only if response is None.
AfterViewMiddleware(rq, v) ==
    IF v.tag = "None"
    THEN [rq EXCEPT !.pc = "view", !.response = v]
    ELSE AfterView(rq, v)

\* What a process_view or process_exception hook of middleware mw returns.
HookReturns(by, mw) ==
    {NoneValue, Falsy(by, mw), HttpResponse(by, mw, 200),
     TemplateResponse(by, mw, 200)}

\* A response that came with a resource closer of its own, as a
\* FileResponse does.
FileResponse(by, mw, status) ==
    [HttpResponse(by, mw, status) EXCEPT !._resource_closers = <<"file.close">>]

\* What a view returns.
ViewReturns ==
    {NoneValue, Coroutine("view", 0), HttpResponse("view", 0, 200),
     TemplateResponse("view", 0, 200), AsyncTemplateResponse("view", 0, 200),
     FileResponse("view", 0, 200)}

\* What a process_template_response hook returns, given the response.
TemplateHookReturns(mw, response) ==
    {response, NoneValue, Coroutine("process_template_response", mw),
     HttpResponse("process_template_response", mw, 200),
     TemplateResponse("process_template_response", mw, 200)}

(***************************************************************************)
(* The actions of one request r.                                           *)
(***************************************************************************)
\* get_response / get_response_async, up to the call of _middleware_chain.
\* django.urls.set_urlconf: the URLconf of the current thread.
set_urlconf(rq, urlconf_name) == [rq EXCEPT !._urlconfs = urlconf_name]

\* A request object handed to get_response by the thread of r: it has a
\* urlconf attribute or not, and the thread's URLconf is what the thread's
\* last request left.
NewRequest(r, urlconf) ==
    [IdleRequest EXCEPT !.urlconf = urlconf,
                        !._urlconfs = req[r]._urlconfs,
                        !.entry_override = req[r]._urlconfs \in URLCONFS]

\* get_response without line 179: the thread's URLconf stays what the last
\* request left.
GetResponse_keeping_urlconf(r) ==
    /\ req[r].pc \in {"idle", "done"}
    /\ _middleware_chain # None
    /\ \E urlconf \in {NoUrlconf} \cup URLCONFS :
         Set(r, Enter(NewRequest(r, urlconf), NextCallee(0)))

GetResponse(r) ==
    /\ req[r].pc \in {"idle", "done"}
    /\ _middleware_chain # None
    /\ \E urlconf \in {NoUrlconf} \cup URLCONFS :
         Set(r, Enter(set_urlconf(NewRequest(r, urlconf), ROOT_URLCONF),
                      NextCallee(0)))

\* A middleware instance is called: its code before get_response, which
\* calls get_response, returns a response of its own, or raises.
StageCall(r) ==
    /\ req[r].pc = "stage"
    /\ LET mw == _middleware_chain[req[r].pos].mw
           rq == Event(req[r], "enter", mw)
       IN  \/ Set(r, Enter(rq, NextCallee(rq.pos)))
           \/ Set(r, Leave(rq, HttpResponse("stage", mw, 200)))
           \/ Set(r, Leave(rq, Raised("Exception", "stage", mw)))

\* get_response returned to a middleware instance: its code after it, which
\* returns the response or raises.
StageReturn(r) ==
    /\ req[r].pc = "stage_post"
    /\ LET mw == _middleware_chain[req[r].pos].mw
           rq == Event(req[r], "exit", mw)
       IN  \/ Set(r, Leave(rq, rq.response))
           \/ Set(r, Leave(rq, Raised("Exception", "stage", mw)))

\* convert_exception_to_response: the except clause of inner.
Guard(r) ==
    /\ req[r].pc = "guard"
    /\ \E error_handler \in ErrorHandlerBehaviours :
        LET rq == req[r]
            c == response_for_exception(rq.response, error_handler, DEBUG,
                                        DEBUG_PROPAGATE_EXCEPTIONS)
        IN  Set(r, Leave([rq EXCEPT
                             !.signals = @ + c.signals,
                             !.security_log = @ \o c.security_log,
                             !.request_log = @ \o c.request_log,
                             !.post_parse_error = @ \/ c.post_parse_error,
                             !.handler_raised = c.handler_raised],
                         c.value))

\* request.close put in front of the response's closers.
append_request_close_in_front(response) ==
    [response EXCEPT !._resource_closers = <<"request.close">> \o @]

\* Line 185: response._resource_closers.append(request.close)
append_request_close(response) ==
    [response EXCEPT !._resource_closers = Append(@, "request.close")]

\* get_response / get_response_async after _middleware_chain returned or
\* raised: lines 185-197.
Finish(r) ==
    /\ req[r].pc = "finish"
    /\ LET rq == req[r]
           v == rq.response
       IN  IF IsException(v)
           THEN Set(r, [rq EXCEPT !.pc = "done", !.result = v])
           ELSE IF v.tag # "Response"
           THEN Set(r, [rq EXCEPT !.pc = "done",
                           !.result = Raised("AttributeError", "get_response", 0)])
           ELSE Set(r, [rq EXCEPT
                           !.pc = "done",
                           !.result = append_request_close(v),
                           !.entry_log = IF v.status >= 400
                                         THEN Append(@, "reason_phrase: path")
                                         ELSE @])

\* Lines 373-378: the resolver of request.urlconf, which becomes the
\* thread's URLconf, or get_resolver(), the resolver of ROOT_URLCONF.
get_request_resolver(rq) ==
    IF rq.urlconf # NoUrlconf
    THEN [set_urlconf(rq, rq.urlconf) EXCEPT !.frame.resolver = rq.urlconf]
    ELSE [rq EXCEPT !.frame.resolver = ROOT_URLCONF]

\* resolve_request: the resolver finds a view, or raises Http404.
Resolve(r) ==
    /\ req[r].pc = "resolve"
    /\ LET rq == get_request_resolver(req[r])
       IN  \/ \E view \in urlpatterns :
                Set(r, IF Len(_view_middleware) = 0
                       THEN [rq EXCEPT !.frame.callback = view, !.pc = "view"]
                       ELSE [rq EXCEPT !.frame.callback = view,
                                       !.pc = "process_view", !.frame.i = 1])
           \/ Set(r, EngineLeave(rq, Raised("Http404", "resolve", 0)))

\* reset_urlconf, connected to request_finished: the signal is sent when
\* the response of a finished request is closed.
reset_urlconf(r) ==
    /\ req[r].pc = "done"
    /\ req[r]._urlconfs # NoUrlconf
    /\ Set(r, set_urlconf(req[r], NoUrlconf))

\* Lines 238-245: one turn of the loop over _view_middleware.
ProcessView(r) ==
    /\ req[r].pc = "process_view"
    /\ LET mw == HookOwner(_view_middleware[req[r].frame.i])
           rq == Event(req[r], "process_view", mw)
       IN  \/ \E v \in HookReturns("process_view", mw) :
                IF Truthy(v)
                THEN Set(r, AfterViewMiddleware(
                                [rq EXCEPT !.frame.short_circuit = v], v))
                ELSE IF rq.frame.i < Len(_view_middleware)
                THEN Set(r, [rq EXCEPT !.response = v, !.frame.i = @ + 1])
                ELSE Set(r, AfterViewMiddleware(rq, v))
           \/ Set(r, EngineLeave(rq, Raised("Exception", "process_view", mw)))

\* _get_response returns, or raises, to its caller.
EngineReturn(r) ==
    /\ req[r].pc = "engine_exit"
    /\ Set(r, Leave([req[r] EXCEPT !.frame = NoFrame], req[r].response))

\* Lines 247-262: make_view_atomic, then the call of the view, which
\* returns a value or raises.
CallView(r) ==
    /\ req[r].pc = "view"
    /\ LET wrapped == make_view_atomic(req[r].frame.callback, ATOMIC_REQUESTS)
       IN  IF wrapped.raised
           THEN Set(r, EngineLeave(
                           [req[r] EXCEPT !.frame.atomic_fault = TRUE],
                           Raised("RuntimeError", "make_view_atomic", 0)))
           ELSE LET rq == [Event(req[r], "view", 0) EXCEPT
                                  !.frame.atomic = wrapped.wrappers]
                IN  \/ \E v \in ViewReturns :
                         Set(r, AfterView([rq EXCEPT !.frame.view_outcome = v], v))
                    \/ \E kind \in ExceptionKinds :
                         LET e == Raised(kind, "view", 0)
                         IN  Set(r, Except([rq EXCEPT !.frame.view_outcome = e,
                                                      !.view_raised = TRUE],
                                           e, "view"))

\* process_exception_by_middleware: one turn of the loop over
\* _exception_middleware, and lines 259-262 / 283-286 once it returned.
ProcessException(r) ==
    /\ req[r].pc = "process_exception"
    /\ LET mw == HookOwner(_exception_middleware[req[r].frame.i])
           rq == Event(req[r], "process_exception", mw)
       IN  \/ \E v \in HookReturns("process_exception", mw) :
                IF Truthy(v)
                THEN IF rq.frame.try_block = "view"
                     THEN Set(r, AfterView(EndExcept(rq), v))
                     ELSE Set(r, EngineLeave(EndExcept(rq), v))
                ELSE IF rq.frame.i < Len(_exception_middleware)
                THEN Set(r, [rq EXCEPT !.frame.i = @ + 1])
                ELSE Set(r, EngineLeave(EndExcept(rq), rq.frame.exc))
           \/ Set(r, EngineLeave(EndExcept(rq),
                      Raised("Exception", "process_exception", mw)))

\* Lines 269-277: one turn of the loop over _template_response_middleware.
\* The loop of lines 269-277 without the check on line 271.
check_template_response_skipped(v, mw) == v

\* Lines 271-276: check_response on what the hook of middleware mw returned,
\* under the name of that hook.
check_template_response(v, mw) ==
    check_response(v, "process_template_response", mw)

ProcessTemplateResponse(r) ==
    /\ req[r].pc = "template_response"
    /\ LET mw == HookOwner(_template_response_middleware[req[r].frame.i])
           rq == [Event(req[r], "process_template_response", mw) EXCEPT
                      !.frame.template_inputs = Append(@, req[r].response)]
       IN  \/ \E v \in TemplateHookReturns(mw, rq.response) :
                LET checked == check_template_response(v, mw)
                    got == [rq EXCEPT !.frame.template_outputs = Append(@, v),
                                      !.response = v]
                IN  IF IsException(checked)
                    THEN Set(r, EngineLeave(got, checked))
                    ELSE IF rq.frame.i < Len(_template_response_middleware)
                    THEN Set(r, [got EXCEPT !.frame.i = @ + 1])
                    ELSE Set(r, [got EXCEPT !.pc = "render"])
           \/ Set(r, EngineLeave(rq,
                      Raised("Exception", "process_template_response", mw)))

\* Lines 278-286: response.render(), which returns the rendered response or
\* raises; a response without render raises AttributeError.
\* The try-block around response.render() in each engine, as the set of its
\* outcomes.  _get_response calls render() and keeps what the call returns: a
\* coroutine function returns an unawaited coroutine and runs nothing.
\* _get_response_async awaits a coroutine function and runs any other render
\* in a thread, so either way the render body runs: it returns the rendered
\* response or raises.
render_response(is_async, response) ==
    IF ~HasRender(response)
    THEN {Raised("AttributeError", "render", 0)}
    ELSE IF response.render_is_async /\ ~is_async
         THEN {Coroutine("render", 0)}
         ELSE {[response EXCEPT !.is_rendered = TRUE],
               Raised("Exception", "render", 0)}

Render(r) ==
    /\ req[r].pc = "render"
    /\ LET rq == Event(req[r], "render", 0)
       IN  \E v \in render_response(CoreIsAsync, rq.response) :
               IF IsException(v)
               THEN Set(r, Except(rq, v, "render"))
               ELSE Set(r, EngineLeave(rq, v))

\* Classes of a project's settings.MIDDLEWARE: synchronous classes (the
\* default flags) whose instances have no hook, one hook or all three, and
\* hook-less classes that are asynchronous only or both.
ProjectMiddleware ==
    {d \in LoadableDescriptors :
        /\ d.factory = "instance"
        /\ Cardinality(d.hooks) \in {0, 1, Cardinality(HookKinds)}
        /\ d.async_capable => d.hooks = {}}

Init ==
    /\ MIDDLEWARE \in ListsOver(ProjectMiddleware)
    /\ DEBUG = FALSE
    /\ DEBUG_PROPAGATE_EXCEPTIONS \in BOOLEAN
    /\ ATOMIC_REQUESTS = {}
    /\ urlpatterns = {NoView}
    /\ URLCONFS = {}
    /\ req = [r \in {"r1"} |-> IdleRequest]
    /\ InitHandler
    /\ InitComponents

Next ==
    \/ \E is_async \in BOOLEAN : LoadMiddleware(is_async)
    \/ \E r \in DOMAIN req :
        \/ GetResponse(r)
        \/ StageCall(r)
        \/ StageReturn(r)
        \/ Guard(r)
        \/ Finish(r)
        \/ Resolve(r)
        \/ ProcessView(r)
        \/ CallView(r)
        \/ ProcessException(r)
        \/ ProcessTemplateResponse(r)
        \/ Render(r)
        \/ EngineReturn(r)

Spec == Init /\ [][Next]_vars

\* load_middleware is called on a new handler, or on one that was loaded
\* before under settings with an empty MIDDLEWARE.
InitBuild ==
    /\ MIDDLEWARE \in ListsOver(Descriptors)
    /\ DEBUG = FALSE
    /\ DEBUG_PROPAGATE_EXCEPTIONS = FALSE
    /\ ATOMIC_REQUESTS = {}
    /\ urlpatterns = {}
    /\ URLCONFS = {}
    /\ req = [r \in {"r1"} |-> IdleRequest]
    /\ InitComponents
    /\ \/ InitHandler
       \/ \E is_async \in BOOLEAN :
            LET r == load_middleware(<<>>, is_async)
            IN  /\ _view_middleware = r.view
                /\ _template_response_middleware = r.template_response
                /\ _exception_middleware = r.exception
                /\ _middleware_chain = r.handler
                /\ load_call = [is_async |-> is_async, MIDDLEWARE |-> <<>>,
                                outcome |-> r.outcome]

NextBuild == \E is_async \in BOOLEAN : LoadMiddleware(is_async)

SpecBuild == InitBuild /\ [][NextBuild]_vars

\* ATOMIC_REQUESTS set on any of the aliases, coroutine and plain views with
\* any _non_atomic_requests, behind middleware with every hook.
AllHooks ==
    [sync_capable |-> TRUE, async_capable |-> FALSE, factory |-> "instance",
     hooks |-> HookKinds]

InitAtomic ==
    /\ MIDDLEWARE \in ListsOver({AllHooks})
    /\ DEBUG = FALSE
    /\ DEBUG_PROPAGATE_EXCEPTIONS = FALSE
    /\ ATOMIC_REQUESTS \in SUBSET Aliases
    /\ urlpatterns = Views
    /\ URLCONFS = {}
    /\ req = [r \in {"r1"} |-> IdleRequest]
    /\ InitHandler
    /\ InitComponents

SpecAtomic == InitAtomic /\ [][Next]_vars

\* Every setting of DEBUG and DEBUG_PROPAGATE_EXCEPTIONS, behind middleware
\* with every hook.
InitDebug ==
    /\ MIDDLEWARE \in ListsOver({AllHooks})
    /\ DEBUG \in BOOLEAN
    /\ DEBUG_PROPAGATE_EXCEPTIONS \in BOOLEAN
    /\ ATOMIC_REQUESTS = {}
    /\ urlpatterns = {NoView}
    /\ URLCONFS = {}
    /\ req = [r \in {"r1"} |-> IdleRequest]
    /\ InitHandler
    /\ InitComponents

SpecDebug == InitDebug /\ [][Next]_vars

\* No request pipeline: a handler that was never loaded and gets no request.
NoPipeline ==
    /\ MIDDLEWARE = <<>>
    /\ DEBUG = FALSE
    /\ DEBUG_PROPAGATE_EXCEPTIONS = FALSE
    /\ ATOMIC_REQUESTS = {}
    /\ urlpatterns = {}
    /\ URLCONFS = {}
    /\ req = [r \in {"r1"} |-> IdleRequest]
    /\ InitHandler

PipelineUnchanged == UNCHANGED <<settingsVars, handlerVars, load_call, req>>

\* A wrapper created by either thread, then used by both.
InitThreads ==
    /\ NoPipeline
    /\ \E t \in Threads : wrapper = NewWrapper(t)
    /\ wrapper_calls = NoCalls
    /\ NewStream
    /\ NewNode

NextThreads ==
    /\ PipelineUnchanged
    /\ UNCHANGED <<stream, stream_calls, node, node_calls>>
    /\ \E t \in Threads :
          \/ inc_thread_sharing(t)
          \/ dec_thread_sharing(t)
          \/ validate_thread_sharing(t)

SpecThreads == InitThreads /\ [][NextThreads]_vars

\* A wrapper made by thread t1, with AUTOCOMMIT set in the settings and a
\* backend that has savepoints.
InitTransaction ==
    /\ NoPipeline
    /\ wrapper = NewWrapper("t1")
    /\ wrapper_calls = NoCalls
    /\ NewStream
    /\ NewNode

ComponentsUnchanged ==
    /\ PipelineUnchanged
    /\ UNCHANGED <<stream, stream_calls, node, node_calls>>

\* The thread that made the wrapper, and a thread it is not shared with.
TransactionThreads == {"t1", "t2"}

\* Connections opened and closed inside and outside atomic blocks, with
\* callbacks queued, by both threads; get_new_connection and
\* connection.close() work or raise.
NextClose ==
    /\ ComponentsUnchanged
    /\ \/ \E t \in TransactionThreads :
             \/ \E fault \in {"", "connect"} : connect(t, fault)
             \/ \E fault \in {"", "call"} : close(t, fault)
       \/ \E func \in Funcs(wrapper_calls.registered + 1), robust \in BOOLEAN :
             on_commit("t1", func, robust, "")
       \/ AtomicEnter("t1")
       \/ AtomicExit("t1")

SpecClose == InitTransaction /\ [][NextClose]_vars

\* The thread that made the wrapper registers callbacks inside and outside
\* atomic blocks and savepoints, commits, and rolls back the transaction or
\* one of the savepoints it made.
NextOnCommit ==
    /\ ComponentsUnchanged
    /\ \/ connect("t1", "")
       \/ \E autocommit \in BOOLEAN : set_autocommit("t1", autocommit, "")
       \/ commit("t1", "")
       \/ \E fault \in {"", "call"} : rollback("t1", fault)
       \/ \E n \in 1..wrapper.savepoint_state, fault \in {"", "call"} :
             savepoint_rollback("t1", Sid("t1", n), fault)
       \/ \E func \in Funcs(wrapper_calls.registered + 1), robust \in BOOLEAN :
             on_commit("t1", func, robust, "")
       \/ run_and_clear_commit_hooks("t1")
       \/ AtomicEnter("t1")
       \/ AtomicExit("t1")

SpecOnCommit == InitTransaction /\ [][NextOnCommit]_vars

\* The methods that call validate_thread_sharing, called by both threads.
NextValidation ==
    /\ ComponentsUnchanged
    /\ \/ \E t \in TransactionThreads :
             \/ \E fault \in {"", "call"} : commit(t, fault)
             \/ rollback(t, "")
             \/ close(t, "")
             \/ savepoint(t, "")
             \/ \E sid \in Sids : savepoint_rollback(t, sid, "")
             \/ \E sid \in Sids : savepoint_commit(t, sid, "")
       \/ connect("t1", "")
       \/ \E func \in Funcs(wrapper_calls.registered + 1), robust \in BOOLEAN :
             on_commit("t1", func, robust, "")
       \/ AtomicEnter("t1")
       \/ AtomicExit("t1")

SpecValidation == InitTransaction /\ [][NextValidation]_vars

\* A LimitedStream over any content with any limit, read with any sizes.
InitStream ==
    /\ NoPipeline
    /\ NewWrapperOfMain
    /\ NewNode
    /\ \E content \in Contents, limit \in 0..MaxBytes :
          stream = LimitedStream(content, limit)
    /\ stream_calls = NoReads

NextStream ==
    /\ PipelineUnchanged
    /\ UNCHANGED <<wrapper, wrapper_calls, node, node_calls>>
    /\ \E size \in Sizes : read(size) \/ readline(size)

SpecStream == InitStream /\ [][NextStream]_vars

\* A node of zero to two leaves with any connector, negated or not, to which
\* data is added with any connector.
InitTree ==
    /\ NoPipeline
    /\ NewWrapperOfMain
    /\ NewStream
    /\ \E children \in {<<>>, <<Leaf("a")>>, <<Leaf("a"), Leaf("b")>>},
          connector \in Connectors, negated \in BOOLEAN :
          node = Node("self", children, connector, negated)
    /\ node_calls = NoAdds

NextTree ==
    /\ PipelineUnchanged
    /\ UNCHANGED <<wrapper, wrapper_calls, stream, stream_calls>>
    /\ \E data \in Data, conn_type \in Connectors : add(data, conn_type)

SpecTree == InitTree /\ [][NextTree]_vars

\* Two requests in flight on one handler, their steps interleaved at will.
RequestIds == {"r1", "r2"}

InitConcurrent ==
    /\ MIDDLEWARE = <<AllHooks>>
    /\ DEBUG = FALSE
    /\ DEBUG_PROPAGATE_EXCEPTIONS = FALSE
    /\ ATOMIC_REQUESTS = {}
    /\ urlpatterns = {NoView}
    /\ URLCONFS = {}
    /\ req = [r \in RequestIds |-> IdleRequest]
    /\ InitHandler
    /\ InitComponents

SpecConcurrent == InitConcurrent /\ [][Next]_vars

\* Requests with and without a urlconf of their own, one after the other on
\* one thread; the response of a finished request is closed or left open.
InitUrlconf ==
    /\ MIDDLEWARE \in ListsOver({AllHooks})
    /\ DEBUG = FALSE
    /\ DEBUG_PROPAGATE_EXCEPTIONS = FALSE
    /\ ATOMIC_REQUESTS = {}
    /\ urlpatterns = {NoView}
    /\ URLCONFS = {"tenant_urls"}
    /\ req = [r \in {"r1"} |-> IdleRequest]
    /\ InitHandler
    /\ InitComponents

NextUrlconf == Next \/ \E r \in DOMAIN req : reset_urlconf(r)

SpecUrlconf == InitUrlconf /\ [][NextUrlconf]_vars

(***************************************************************************)
(* What a request has done, read off its trace.                            *)
(***************************************************************************)
\* The middleware indices of the trace's events called name, in trace order.
Events(rq, name) ==
    LET named == SelectSeq(rq.trace, LAMBDA e : e[1] = name)
    IN  [k \in 1..Len(named) |-> named[k][2]]

Decreasing(seq) == \A a, b \in 1..Len(seq) : a < b => seq[a] > seq[b]

\* The members of a set of indices, smallest first.
Ascending(S) ==
    CHOOSE seq \in [1..Cardinality(S) -> S] :
        \A a, b \in 1..Cardinality(S) : a < b => seq[a] < seq[b]

\* The members of a set of indices, largest first.
Descending(S) ==
    CHOOSE seq \in [1..Cardinality(S) -> S] :
        \A a, b \in 1..Cardinality(S) : a < b => seq[a] > seq[b]

IsPrefix(s, t) == Len(s) <= Len(t) /\ \A k \in 1..Len(s) : s[k] = t[k]

\* Indices in settings.MIDDLEWARE of the classes that gave an instance, and
\* of those whose instance has the hook.
Instances == {i \in 1..Len(MIDDLEWARE) : MIDDLEWARE[i].factory = "instance"}

InstancesWith(kind) == {i \in Instances : kind \in MIDDLEWARE[i].hooks}

Called(rq, name) == Len(Events(rq, name)) > 0

C2_ShortCircuit ==
    \A r \in DOMAIN req :
        LET f == req[r].frame
            pv == Events(req[r], "process_view")
        IN  f.short_circuit # NoneValue =>
                /\ ~Called(req[r], "view")
                /\ f.view_outcome = NoneValue
                /\ IsPrefix(pv, Ascending(InstancesWith("process_view")))
                /\ pv[Len(pv)] = f.short_circuit.mw
                /\ req[r].pc \notin {"process_view", "view"}
                /\ f.held = f.short_circuit
                /\ (req[r].pc = "engine_exit" /\ ~HasRender(f.short_circuit))
                       => req[r].response = f.short_circuit

C2_Witness ==
    \E r \in DOMAIN req :
        /\ req[r].pc = "engine_exit"
        /\ req[r].frame.short_circuit.tag = "Response"
        /\ req[r].frame.short_circuit.mw = 1
        /\ req[r].response = req[r].frame.short_circuit
        /\ Cardinality(InstancesWith("process_view")) = 2

InEngine(rq) ==
    rq.pc \in {"resolve", "process_view", "view", "process_exception",
               "template_response", "render", "engine_exit"}

\* What C4 states of the hooks of a response with render, with the order
\* left open: the hooks called so far are the first of order, each was given
\* what the one before it returned (the first, the response checked on line
\* 265), and render() is reached only after all of them.
TemplateHooksRunIn(order) ==
    \A r \in DOMAIN req :
        LET f == req[r].frame
            called == Events(req[r], "process_template_response")
        IN  /\ IsPrefix(called, order)
            /\ InEngine(req[r]) =>
                /\ Len(f.template_inputs) = Len(called)
                /\ \A k \in 1..Len(f.template_inputs) :
                       f.template_inputs[k] =
                           IF k = 1 THEN f.held ELSE f.template_outputs[k - 1]
            /\ req[r].pc = "render" => Len(called) = Len(order)

\* C4 as stated: process_template_response hooks run in configuration order,
\* each on the previous one's response, none skipped.
C4_Original == TemplateHooksRunIn(Ascending(InstancesWith("process_template_response")))

\* C4, amended: process_template_response hooks run in reverse configuration
\* order (the last class of settings.MIDDLEWARE first), each on the response
\* the previously called hook returned, and render() is reached only after
\* every one of them was called.
C4_ReverseConfigurationOrder ==
    TemplateHooksRunIn(Descending(InstancesWith("process_template_response")))

C4_Witness ==
    \E r \in DOMAIN req :
        /\ req[r].pc = "render"
        /\ Events(req[r], "process_template_response") = <<2, 1>>
        /\ req[r].frame.template_outputs[1] =
               TemplateResponse("process_template_response", 2, 200)
        /\ req[r].frame.template_inputs[2] = req[r].frame.template_outputs[1]
        /\ req[r].frame.template_inputs[1] = TemplateResponse("view", 0, 200)

\* What C5 states of the hooks called for an exception of the view, with the
\* order left open: until render() is called, the process_exception hooks
\* called are the first of order, they are called only once the view has
\* raised, and then the first of them is called.
ExceptionHooksRunIn(order) ==
    \A r \in DOMAIN req :
        LET called == Events(req[r], "process_exception")
        IN  ~Called(req[r], "render") =>
                /\ IsPrefix(called, order)
                /\ called # <<>> => req[r].view_raised
                /\ req[r].pc = "process_exception" =>
                       Len(called) = req[r].frame.i - 1
                /\ (req[r].view_raised /\ order # <<>>
                        /\ req[r].pc # "process_exception") => called # <<>>

\* C5 as stated: when the view raises, process_exception hooks run in
\* configuration order.
C5_Original == ExceptionHooksRunIn(Ascending(InstancesWith("process_exception")))

\* C5, amended: when the view raises, process_exception hooks run in reverse
\* configuration order (the last class of settings.MIDDLEWARE first).
C5_ReverseConfigurationOrder ==
    ExceptionHooksRunIn(Descending(InstancesWith("process_exception")))

C5_Witness ==
    \E r \in DOMAIN req :
        /\ req[r].view_raised
        /\ ~Called(req[r], "render")
        /\ Events(req[r], "process_exception") = <<2, 1>>
        /\ req[r].pc = "engine_exit"
        /\ req[r].response.by = "process_exception"

(***************************************************************************)
(* What load_middleware built, read off _middleware_chain and the hook     *)
(* lists.                                                                  *)
(***************************************************************************)
StagePositions ==
    {p \in 1..Len(_middleware_chain) : _middleware_chain[p].t = "stage"}

\* The class the stage at position p of the chain is an instance of.
StageClass(p) == load_call.MIDDLEWARE[_middleware_chain[p].mw]

\* Whether the handler the stage at position p was given is asynchronous: the
\* mode of the next stage inwards or, under the innermost stage, of
\* _get_response / _get_response_async.
WrappedIsAsync(p) == _middleware_chain[NextCallee(p)].is_async

\* C6 as stated: in a blocking pipeline every sync_capable stage runs
\* blocking; in every other case a stage's mode is its async_capable flag.
C6_Original ==
    load_call.outcome = "ok" =>
        \A p \in StagePositions :
            _middleware_chain[p].is_async =
                IF ~load_call.is_async /\ StageClass(p).sync_capable
                THEN FALSE
                ELSE StageClass(p).async_capable

\* C6, amended: a sync_capable stage runs blocking when the handler it wraps
\* (the next stage inwards, or the engine under the innermost stage) is
\* blocking; in every other case a stage's mode is its async_capable flag.
C6_ModeFollowsWrappedHandler ==
    load_call.outcome = "ok" =>
        \A p \in StagePositions :
            _middleware_chain[p].is_async =
                IF ~WrappedIsAsync(p) /\ StageClass(p).sync_capable
                THEN FALSE
                ELSE StageClass(p).async_capable

C6_Witness ==
    /\ load_call.outcome = "ok"
    /\ ~load_call.is_async
    /\ \E p \in StagePositions :
        /\ StageClass(p).sync_capable /\ StageClass(p).async_capable
        /\ WrappedIsAsync(p)
        /\ _middleware_chain[p].is_async

\* A class whose factory load_middleware calls and that raises
\* MiddlewareNotUsed.
NotUsed(d) ==
    d.factory = "MiddlewareNotUsed" /\ (d.sync_capable \/ d.async_capable)

WithoutNotUsed(MW) == SelectSeq(MW, LAMBDA d : ~NotUsed(d))

\* The index in WithoutNotUsed(MW) of the class at index i of MW.
IndexWithoutNotUsed(MW, i) == Cardinality({j \in 1..i : ~NotUsed(MW[j])})

\* A callable, and a list of callables, built from MW, as built from
\* WithoutNotUsed(MW).
Renumbered(method, MW) ==
    [k \in 1..Len(method) |->
        [method[k] EXCEPT !.mw = IF @ = 0 THEN 0 ELSE IndexWithoutNotUsed(MW, @)]]

RenumberedAll(methods, MW) ==
    [k \in 1..Len(methods) |-> Renumbered(methods[k], MW)]

\* C7: what a call of load_middleware leaves in the hook lists, how it ends
\* and, if it ends well, the chain it assigns are those of a call on the
\* same list without the classes that raised MiddlewareNotUsed.
C7_NotUsedAsIfRemoved ==
    load_call.outcome # "never" =>
        LET MW == load_call.MIDDLEWARE
            removed == load_middleware(WithoutNotUsed(MW), load_call.is_async)
        IN  /\ load_call.outcome = removed.outcome
            /\ RenumberedAll(_view_middleware, MW) = removed.view
            /\ RenumberedAll(_template_response_middleware, MW)
                   = removed.template_response
            /\ RenumberedAll(_exception_middleware, MW) = removed.exception
            /\ load_call.outcome = "ok" =>
                   Renumbered(_middleware_chain, MW) = removed.handler

C7_Witness ==
    /\ load_call.outcome = "ok"
    /\ ~load_call.is_async
    /\ Len(load_call.MIDDLEWARE) = 2
    /\ NotUsed(load_call.MIDDLEWARE[1])
    /\ ~load_call.MIDDLEWARE[1].sync_capable
    /\ load_call.MIDDLEWARE[2].factory = "instance"
    /\ load_call.MIDDLEWARE[2].hooks = HookKinds
    /\ Len(_view_middleware) = 1
    /\ HookOwner(_view_middleware[1]) = 2
    /\ Len(_middleware_chain) = 4

\* Classes load_middleware stops at: no capability flag set, or a factory
\* that returns None.
Fatal(d) == (~d.sync_capable /\ ~d.async_capable) \/ d.factory = "None"

\* The first fatal class load_middleware meets: the last of the list.
FirstFatal(MW) ==
    MW[CHOOSE i \in 1..Len(MW) :
          Fatal(MW[i]) /\ \A j \in (i + 1)..Len(MW) : ~Fatal(MW[j])]

\* C8: a call of load_middleware on a list with a class that has neither
\* capability flag, or whose factory returns None, ends in RuntimeError or
\* ImproperlyConfigured and leaves _middleware_chain as it was; on any other
\* list it ends well.
C8_FatalLoadKeepsChain ==
    [][(\E is_async \in BOOLEAN : LoadMiddleware(is_async)) =>
        IF \E i \in 1..Len(MIDDLEWARE) : Fatal(MIDDLEWARE[i])
        THEN /\ load_call'.outcome =
                    IF ~FirstFatal(MIDDLEWARE).sync_capable
                           /\ ~FirstFatal(MIDDLEWARE).async_capable
                    THEN "RuntimeError"
                    ELSE "ImproperlyConfigured"
             /\ _middleware_chain' = _middleware_chain
        ELSE load_call'.outcome = "ok"]_vars

C8_Witness ==
    /\ load_call.outcome = "ImproperlyConfigured"
    /\ load_call.is_async
    /\ Len(load_call.MIDDLEWARE) = 2
    /\ load_call.MIDDLEWARE[2].hooks = HookKinds
    /\ Len(_view_middleware) = 1
    /\ _middleware_chain = load_middleware(<<>>, FALSE).handler

\* A coroutine view that make_view_atomic would have to wrap.
AtomicCoroutine(view) ==
    view.is_coroutine /\ AtomicAliases(view, ATOMIC_REQUESTS) # {}

ConfigurationFault == Raised("RuntimeError", "make_view_atomic", 0)

C10_CheckResponse ==
    \A r \in DOMAIN req :
        LET f == req[r].frame
        IN  (InEngine(req[r]) /\ Called(req[r], "view")
                 /\ ~IsException(f.view_outcome)) =>
                IF f.view_outcome.tag \in {"None", "Coroutine"}
                THEN /\ req[r].pc = "engine_exit"
                     /\ req[r].response = Raised("ValueError", "view", 0)
                ELSE /\ f.held = f.view_outcome
                     /\ (req[r].pc = "engine_exit" /\ ~HasRender(f.view_outcome))
                            => req[r].response = f.view_outcome

C10_Witness ==
    \E r \in DOMAIN req :
        /\ req[r].pc = "engine_exit"
        /\ CoreIsAsync
        /\ Called(req[r], "view")
        /\ req[r].frame.view_outcome = Coroutine("view", 0)
        /\ req[r].response = Raised("ValueError", "view", 0)

GuardStep(r) == req[r].pc = "guard" /\ req'[r] # req[r]

\* The status code of the rule for each exception class.
RuleStatus(kind) ==
    CASE kind = "Http404" -> 404
      [] kind = "PermissionDenied" -> 403
      [] kind = "MultiPartParserError" -> 400
      [] kind = "BadRequest" -> 400
      [] kind \in SuspiciousKinds -> 400
      [] OTHER -> 500

\* What the uncaught-exception path gives for exception e.
Uncaught(e) ==
    IF DEBUG_PROPAGATE_EXCEPTIONS THEN e
    ELSE HttpResponse(IF DEBUG THEN "technical_500_response" ELSE "handler500",
                      0, 500)

\* The responses of a working error handler for status: a plain response,
\* or a TemplateResponse, which comes back rendered.
HandlerResponses(status) ==
    {Value("Response", "error_handler", 0, status, FALSE, ""),
     [Value("Response", "error_handler", 0, status, TRUE, "")
         EXCEPT !.is_rendered = TRUE]}

SecurityLogAndMark(r) ==
    LET exc == req[r].response
    IN  /\ req'[r].security_log =
               IF exc.kind \in SuspiciousKinds
               THEN Append(req[r].security_log, <<"django.security", exc.kind>>)
               ELSE req[r].security_log
        /\ req'[r].post_parse_error =
               (req[r].post_parse_error \/ exc.kind \in BodyLimitKinds)

Occurrences(seq, x) == Cardinality({k \in 1..Len(seq) : seq[k] = x})

\* C15: a response get_response returned has request.close in its
\* _resource_closers once, as the last element, and get_response logged its
\* one line "reason_phrase: path" if the status code is 400 or more and
\* nothing otherwise.
C15_CloserAndLog ==
    \A r \in DOMAIN req :
        (req[r].pc = "done" /\ req[r].result.tag = "Response") =>
            LET closers == req[r].result._resource_closers
            IN  /\ Occurrences(closers, "request.close") = 1
                /\ closers[Len(closers)] = "request.close"
                /\ req[r].entry_log =
                       IF req[r].result.status >= 400
                       THEN <<"reason_phrase: path">>
                       ELSE <<>>

C15_Witness ==
    \E r \in DOMAIN req :
        /\ req[r].pc = "done"
        /\ req[r].result._resource_closers = <<"file.close", "request.close">>
        /\ req[r].result.status = 200
        /\ req[r].entry_log = <<>>
        /\ Len(MIDDLEWARE) = MaxMW

\* C16: a call of load_middleware with the settings.MIDDLEWARE and the
\* is_async of the call before it, ending as that one did, leaves the chain
\* and the three hook lists as that call left them.
C16_LoadTwice ==
    [][((\E is_async \in BOOLEAN : LoadMiddleware(is_async))
            /\ load_call' = load_call)
        => handlerVars' = handlerVars]_vars

\* The handler as the first of two such calls leaves it, with as many stages
\* and hooks as the bound allows.
C16_Witness ==
    /\ load_call.outcome = "ok"
    /\ load_call.MIDDLEWARE = MIDDLEWARE
    /\ load_call.is_async
    /\ Len(MIDDLEWARE) = MaxMW
    /\ Cardinality(StagePositions) = MaxMW
    /\ Len(_view_middleware) = MaxMW
    /\ Len(_template_response_middleware) = MaxMW
    /\ Len(_exception_middleware) = MaxMW

\* The last calls request rq made are the calls of every process_exception
\* hook, in the order of _exception_middleware.
AllExceptionHooksCalledLast(rq) ==
    LET hooks == Descending(InstancesWith("process_exception"))
        n == Len(hooks)
    IN  /\ Len(rq.trace) >= n
        /\ \A k \in 1..n :
               rq.trace[Len(rq.trace) - n + k] = <<"process_exception", hooks[k]>>

\* _get_response is raising an exception that came from one of sources: the
\* view, a hook or render().  The ValueError of check_response is not one.
EscalatesFrom(rq, sources) ==
    /\ rq.pc = "engine_exit"
    /\ IsException(rq.response)
    /\ rq.response.by \in sources
    /\ rq.response.kind # "ValueError"

\* C17 as stated: an exception of the view, of a process_view or
\* process_template_response hook or of render() leaves _get_response only
\* after every process_exception hook was called with it.
C17_Original ==
    \A r \in DOMAIN req :
        EscalatesFrom(req[r], {"view", "process_view",
                               "process_template_response", "render"})
            => AllExceptionHooksCalledLast(req[r])

\* C17, amended: an exception of the view or of render() leaves
\* _get_response only after every process_exception hook was called with
\* it; an exception of a process_view or process_template_response hook
\* leaves it at once, with no process_exception hook called.
C17_ViewAndRenderOnly ==
    \A r \in DOMAIN req :
        /\ EscalatesFrom(req[r], {"view", "render"})
               => AllExceptionHooksCalledLast(req[r])
        /\ EscalatesFrom(req[r], {"process_view", "process_template_response"})
               => req[r].trace[Len(req[r].trace)] =
                      <<req[r].response.by, req[r].response.mw>>

C17_Witness ==
    \E r \in DOMAIN req :
        /\ EscalatesFrom(req[r], {"render"})
        /\ Len(MIDDLEWARE) = 2
        /\ Events(req[r], "process_exception") = <<2, 1>>
        /\ Events(req[r], "process_template_response") = <<2, 1>>

\* C18: for the same request, hook lists, handler behaviour and render
\* behaviour, _get_response and _get_response_async end with the same
\* response or the same raised fault.  The two engines share every step but
\* two: wherever a response is about to be rendered, the render step of one
\* engine has the outcomes of the render step of the other; and whatever the
\* blocking engine hands back, the cooperative engine would hand back too.
C18_EnginesAgree ==
    \A r \in DOMAIN req :
        /\ req[r].pc = "render"
               => render_response(TRUE, req[r].response)
                      = render_response(FALSE, req[r].response)
        /\ req[r].pc = "engine_exit" /\ ~CoreIsAsync
               => returned_response(TRUE, req[r].response) = req[r].response

\* The part of a dispatch an event of a trace belongs to, in the order a
\* request goes through them: stage entries, process_view hooks, the view,
\* process_exception hooks for the view, process_template_response hooks,
\* render, process_exception hooks for render, stage exits.
Phase(trace, k) ==
    CASE trace[k][1] = "enter" -> 1
      [] trace[k][1] = "process_view" -> 2
      [] trace[k][1] = "view" -> 3
      [] trace[k][1] = "process_exception" ->
            IF \E j \in 1..k : trace[j][1] = "render" THEN 7 ELSE 4
      [] trace[k][1] = "process_template_response" -> 5
      [] trace[k][1] = "render" -> 6
      [] trace[k][1] = "exit" -> 8

\* The order of a request that runs alone: the parts follow each other, the
\* view and render are called at most once, stage entries and process_view
\* hooks go in configuration order, everything else in reverse.
OrderAlone(trace) ==
    \A k \in 1..(Len(trace) - 1) :
        \/ Phase(trace, k) < Phase(trace, k + 1)
        \/ /\ Phase(trace, k) = Phase(trace, k + 1)
           /\ IF Phase(trace, k) <= 2
              THEN trace[k][2] < trace[k + 1][2]
              ELSE trace[k][2] > trace[k + 1][2]

\* The order above is the order of every request that runs alone.
OrderAloneHolds == \A r \in DOMAIN req : OrderAlone(req[r].trace)

C20_HandlingKeepsHandler ==
    [][(\E r \in DOMAIN req : req'[r] # req[r])
          => handlerVars' = handlerVars]_vars

C20_Witness ==
    \E r \in DOMAIN req :
        /\ req[r].pc = "done"
        /\ IsException(req[r].result)
        /\ Called(req[r], "process_view")
        /\ Called(req[r], "process_template_response")
        /\ Called(req[r], "process_exception")
        /\ Len(_view_middleware) = 2
        /\ Len(_template_response_middleware) = 2
        /\ Len(_exception_middleware) = 2
        /\ load_call.outcome = "ok"

\* C21: validate_thread_sharing raises DatabaseError exactly when the calling
\* thread is not the thread that created the wrapper and the thread-sharing
\* count is zero; and after any sequence of inc_thread_sharing and
\* dec_thread_sharing calls, a thread other than the creator passes the
\* validation if and only if the increments outnumber the decrements that
\* did not raise.
C21_ThreadSharing ==
    /\ wrapper_calls.last.method = "validate_thread_sharing"
          => (wrapper_calls.last.raised = "DatabaseError"
                 <=> /\ wrapper_calls.last.thread # wrapper._thread_ident
                     /\ wrapper._thread_sharing_count = 0)
    /\ \A t \in Threads \ {wrapper._thread_ident} :
          validate_thread_sharing_raises(wrapper, t) = ""
              <=> wrapper_calls.inc > wrapper_calls.dec

C21_Witness ==
    /\ wrapper_calls.last.method = "validate_thread_sharing"
    /\ wrapper_calls.last.thread # wrapper._thread_ident
    /\ wrapper_calls.last.raised = "DatabaseError"
    /\ wrapper_calls.inc = 2
    /\ wrapper_calls.dec = 2

\* C22: LimitedStream never lets the wrapped stream be read past the limit:
\* after any sequence of read(size) and readline(size) calls with any size
\* (None, -1, other negative values, zero, values above what is left), the
\* number of bytes returned and _pos never exceed limit, and a call made
\* with _pos >= limit returns empty bytes and leaves the wrapped stream
\* where it was.
C22_NeverPastLimit ==
    /\ stream._pos <= stream.limit
    /\ stream_calls.returned <= stream.limit
    /\ stream_calls.last.pos_before >= stream.limit
          => /\ stream_calls.last.data = <<>>
             /\ stream.offset = stream_calls.last.offset_before

\* Whether the object id is n or is below n in the tree.
RECURSIVE InTree(_, _)
InTree(id, n) ==
    \/ n.id = id
    \/ \E k \in 1..Len(n.children) : InTree(id, n.children[k])

\* C23: Node.add(data, conn_type) never changes self.connector or
\* self.negated and never makes self a child of another node, for every data
\* and every conn_type, equal to the connector self has or different from it.
C23_AddKeepsRoot ==
    node_calls.count > 0
        => /\ node.connector = node_calls.last.connector_before
           /\ node.negated = node_calls.last.negated_before
           /\ \A k \in 1..Len(node.children) : ~InTree("self", node.children[k])

\* A step of the loop of process_exception_by_middleware for request r, run
\* for the exception raised in try_block.
ExceptionHookStep(r, try_block) ==
    /\ req[r].pc = "process_exception"
    /\ req[r].frame.try_block = try_block
    /\ req'[r] # req[r]

\* What such a step does, the exception being e and taken(v) what the engine
\* does with a response v a hook returned: the next hook is tried for the
\* same exception; or the hook's response is taken and the loop is left; or
\* the last hook returned nothing and e itself leaves the engine; or the hook
\* raised, and what it raised leaves the engine.
ExceptionHookOutcome(r, e, taken(_)) ==
    LET i == req[r].frame.i
        mw == HookOwner(_exception_middleware[i])
    IN  \/ /\ i < Len(_exception_middleware)
           /\ req'[r].pc = "process_exception"
           /\ req'[r].frame.i = i + 1
           /\ req'[r].frame.exc = e
        \/ \E v \in {req'[r].response, req'[r].frame.held} :
              /\ v.tag = "Response"
              /\ v.by = "process_exception"
              /\ v.mw = mw
              /\ taken(v)
              /\ req'[r].pc # "process_exception"
        \/ /\ i = Len(_exception_middleware)
           /\ req'[r].pc = "engine_exit"
           /\ req'[r].response = e
        \/ /\ req'[r].pc = "engine_exit"
           /\ req'[r].response = Raised("Exception", "process_exception", mw)

\* C24: when the view raises, the process_exception hooks are tried one at a
\* time until one returns a non-empty response; that response is the one
\* the engine goes on with and no later hook is called; when the last hook
\* has returned nothing, the exception the view raised, not another one,
\* leaves the engine.
C24_ViewFaultHooks ==
    [][\A r \in DOMAIN req :
          ExceptionHookStep(r, "view")
              => /\ req[r].frame.exc = req[r].frame.view_outcome
                 /\ ExceptionHookOutcome(r, req[r].frame.view_outcome,
                        LAMBDA v : req'[r].frame.held = v)]_vars

C24_Witness ==
    \E r \in DOMAIN req :
        /\ req[r].pc = "guard"
        /\ req[r].view_raised
        /\ Events(req[r], "process_exception") = <<2, 1>>
        /\ ~Called(req[r], "render")
        /\ req[r].response = Raised("PermissionDenied", "view", 0)

\* The state of load_middleware's loop when it comes to settings.MIDDLEWARE[i]
\* (the loop goes from the last class to the first).
RECURSIVE load_before(_, _, _)
load_before(MW, is_async, i) ==
    IF i = Len(MW)
    THEN LoadStart(is_async)
    ELSE LET s == load_before(MW, is_async, i + 1)
         IN  IF s.outcome # "running"
             THEN s
             ELSE load_iteration(s, i + 1, MW[i + 1], is_async)

\* The iterations of the last load_middleware call that called a factory.
FactoryCalls ==
    {i \in 1..Len(load_call.MIDDLEWARE) :
        /\ load_before(load_call.MIDDLEWARE, load_call.is_async, i).outcome
               = "running"
        /\ load_call.MIDDLEWARE[i].sync_capable
               \/ load_call.MIDDLEWARE[i].async_capable}

\* C25: for every combination of capability flags and overall mode, at each
\* iteration of load_middleware the handler handed to the middleware factory
\* is in the mode chosen for that middleware, it is the handler built so far
\* itself exactly when that one is in this mode already, and the chain
\* finally stored is in the overall mode is_async.
C25_HandlerInStageMode ==
    /\ \A i \in FactoryCalls :
          LET s == load_before(load_call.MIDDLEWARE, load_call.is_async, i)
              middleware_is_async ==
                  middleware_mode(load_call.MIDDLEWARE[i], s.handler_is_async,
                                  load_call.is_async)
              adapted_handler ==
                  adapt_method_mode(middleware_is_async, s.handler,
                                    s.handler_is_async)
          IN  /\ iscoroutinefunction(adapted_handler) = middleware_is_async
              /\ adapted_handler = s.handler
                     <=> iscoroutinefunction(s.handler) = middleware_is_async
    /\ load_call.outcome = "ok"
          => iscoroutinefunction(_middleware_chain) = load_call.is_async

C25_Witness ==
    /\ load_call.outcome = "ok"
    /\ load_call.is_async
    /\ FactoryCalls = {1, 2}
    /\ \E p \in 1..Len(_middleware_chain) :
          _middleware_chain[p].t = "sync_to_async"
    /\ \E p \in 1..Len(_middleware_chain) :
          _middleware_chain[p].t = "async_to_sync"

\* The members of a sequence.
Range(seq) == {seq[k] : k \in 1..Len(seq)}

\* C26: a view that is not a coroutine function is called inside one
\* transaction for exactly the database aliases that have ATOMIC_REQUESTS
\* set and are not in the view's _non_atomic_requests, and is called as it
\* is when there is no such alias.
C26_AtomicForEnabledAliases ==
    \A r \in DOMAIN req :
        (InEngine(req[r]) /\ Called(req[r], "view")
                /\ ~req[r].frame.callback.is_coroutine)
            => LET enabled == {alias \in Aliases :
                                  /\ alias \in ATOMIC_REQUESTS
                                  /\ alias \notin
                                        req[r].frame.callback._non_atomic_requests}
               IN  /\ Range(req[r].frame.atomic) = enabled
                   /\ Len(req[r].frame.atomic) = Cardinality(enabled)
                   /\ enabled = {} => req[r].frame.atomic = <<>>

C26_Witness ==
    \E r \in DOMAIN req :
        /\ InEngine(req[r])
        /\ Called(req[r], "view")
        /\ ~req[r].frame.callback.is_coroutine
        /\ ATOMIC_REQUESTS = {"default", "replica"}
        /\ req[r].frame.callback._non_atomic_requests = {"default"}
        /\ req[r].frame.atomic = <<"replica">>

\* C27: when resolving or calling the error handler for a status code
\* raises, got_request_exception is sent and what comes back is what
\* handle_uncaught_exception gives for the exception just raised, never a
\* response with the status code of the rule.
C27_FailingHandlerIsUncaught ==
    [][\A r \in DOMAIN req :
          (GuardStep(r) /\ req'[r].handler_raised) =>
              /\ RuleStatus(req[r].response.kind) # 500
              /\ req'[r].signals = req[r].signals + 1
              /\ req'[r].response =
                     Uncaught(Raised("Exception", "error_handler", 0))
              /\ req'[r].response.tag = "Response" =>
                     req'[r].response.status = 500]_vars

C27_Witness ==
    \E r \in DOMAIN req :
        /\ req[r].pc = "done"
        /\ req[r].handler_raised
        /\ req[r].signals = 1
        /\ req[r].security_log = <<<<"django.security", "SuspiciousOperation">>>>
        /\ req[r].result.tag = "Response"
        /\ req[r].result.by = "handler500"
        /\ req[r].result.status = 500

\* C28: no response with a callable render that is not rendered yet comes
\* out of response_for_exception, whichever branch produced the response.
C28_RenderedOnReturn ==
    [][\A r \in DOMAIN req :
          GuardStep(r) =>
              ~(HasRender(req'[r].response) /\ ~req'[r].response.is_rendered)]_vars

C28_Witness ==
    \E r \in DOMAIN req :
        /\ req[r].pc = "done"
        /\ ~req[r].handler_raised
        /\ req[r].result.by = "error_handler"
        /\ req[r].result.status = 403
        /\ HasRender(req[r].result)
        /\ req[r].result.is_rendered

\* C29: an exception raised by render() is passed to the process_exception
\* hooks as an exception of the view is: the hooks are tried in turn from
\* the first, the first non-empty response a hook returns is what the engine
\* returns, and when the last hook has returned nothing the exception of
\* render itself leaves the engine.
C29_RenderFaultHooks ==
    [][\A r \in DOMAIN req :
          /\ (req[r].pc = "render" /\ req'[r] # req[r]
                  /\ IsException(req'[r].response))
                 => /\ Len(_exception_middleware) = 0
                    /\ req'[r].response.by = "render"
          /\ (req[r].pc = "render" /\ req'[r].pc = "process_exception")
                 => /\ req'[r].frame.exc.by = "render"
                    /\ req'[r].frame.try_block = "render"
                    /\ req'[r].frame.i = 1
          /\ ExceptionHookStep(r, "render")
                 => /\ req[r].frame.exc.by = "render"
                    /\ ExceptionHookOutcome(r, req[r].frame.exc,
                           LAMBDA v : /\ req'[r].pc = "engine_exit"
                                      /\ req'[r].response = v)]_vars

C29_Witness ==
    \E r \in DOMAIN req :
        /\ req[r].pc = "engine_exit"
        /\ ~req[r].view_raised
        /\ Called(req[r], "render")
        /\ Events(req[r], "process_exception") = <<2, 1>>
        /\ req[r].response = HttpResponse("process_exception", 1, 200)

\* C30: what a process_template_response hook returns is checked as soon as
\* the hook has returned: when it is None or a coroutine that was not
\* awaited, the engine raises the ValueError that names this hook, and no
\* later process_template_response hook and no render() is called.
C30_TemplateHookChecked ==
    \A r \in DOMAIN req :
        LET f == req[r].frame
            called == Events(req[r], "process_template_response")
        IN  InEngine(req[r]) =>
                \A k \in 1..Len(f.template_outputs) :
                    f.template_outputs[k].tag \in {"None", "Coroutine"}
                        => /\ k = Len(called)
                           /\ ~Called(req[r], "render")
                           /\ ~Called(req[r], "process_exception")
                                 \/ req[r].view_raised
                           /\ req[r].pc = "engine_exit"
                           /\ req[r].response =
                                  Raised("ValueError",
                                         "process_template_response", called[k])

C30_Witness ==
    \E r \in DOMAIN req :
        /\ req[r].pc = "engine_exit"
        /\ Len(_template_response_middleware) = 2
        /\ Events(req[r], "process_template_response") = <<2>>
        /\ req[r].frame.template_outputs =
               <<Coroutine("process_template_response", 2)>>
        /\ ~Called(req[r], "render")
        /\ req[r].response = Raised("ValueError", "process_template_response", 2)



(***************************************************************************)
(* C31.  The view after the loop over _view_middleware.                    *)
(***************************************************************************)
\* The call of _get_response has left lines 238-248 without a process_view
\* hook having raised, and the view was resolved and could be wrapped.
PastViewMiddleware(rq) ==
    /\ InEngine(rq)
    /\ rq.pc \notin {"resolve", "process_view", "view"}
    /\ ~rq.frame.atomic_fault
    /\ ~(IsException(rq.response)
            /\ rq.response.by \in {"resolve", "process_view"})

\* C31: if no process_view hook returned a truthy response, the view is
\* called exactly once with the resolved callback, whatever the hooks
\* returned (None or a falsy value that is not None).
C31_ViewCalledOnce ==
    \A r \in DOMAIN req :
        (PastViewMiddleware(req[r]) /\ req[r].frame.short_circuit = NoneValue)
            => Occurrences(req[r].trace, <<"view", 0>>) = 1


(***************************************************************************)
(* C32.  _middleware_chain as the flag of a complete initialization.       *)
(***************************************************************************)
\* The middleware instances composed in _middleware_chain.
ChainStages ==
    {_middleware_chain[k].mw :
        k \in {j \in DOMAIN _middleware_chain : _middleware_chain[j].t = "stage"}}

\* hooks holds one method for each instance of the chain that has the hook,
\* and nothing else.
HooksOfChain(hooks, kind) ==
    /\ {HookOwner(hooks[k]) : k \in DOMAIN hooks}
           = {mw \in ChainStages : kind \in MIDDLEWARE[mw].hooks}
    /\ \A j, k \in DOMAIN hooks :
           HookOwner(hooks[j]) = HookOwner(hooks[k]) => j = k

\* C32: whenever _middleware_chain is set, after any calls of load_middleware
\* that returned or raised, the three hook lists hold exactly the hooks of
\* the middleware instances composed in that chain.
C32_ChainFlagsCompleteLists ==
    _middleware_chain # None =>
        /\ HooksOfChain(_view_middleware, "process_view")
        /\ HooksOfChain(_template_response_middleware,
                        "process_template_response")
        /\ HooksOfChain(_exception_middleware, "process_exception")


(***************************************************************************)
(* C33.  request.urlconf and the URLconf of the thread.                    *)
(***************************************************************************)
\* C33: while get_response handles a request without urlconf, the thread's
\* URLconf is ROOT_URLCONF and the request is resolved in ROOT_URLCONF,
\* whatever URLconf earlier requests left set for the thread; a request with
\* urlconf is resolved in its own, which is set for the thread from
\* resolve_request on.
C33_OverrideStaysWithRequest ==
    \A r \in DOMAIN req :
        LET rq == req[r]
        IN  rq.pc \notin {"idle", "done"} =>
                IF rq.urlconf = NoUrlconf
                THEN /\ rq._urlconfs = ROOT_URLCONF
                     /\ rq.frame.resolver \in {NoUrlconf, ROOT_URLCONF}
                     /\ (InEngine(rq) /\ rq.pc # "resolve")
                            => rq.frame.resolver = ROOT_URLCONF
                ELSE /\ rq._urlconfs \in {ROOT_URLCONF, rq.urlconf}
                     /\ rq.pc \in {"stage", "resolve"}
                            => rq._urlconfs = ROOT_URLCONF
                     /\ (InEngine(rq) /\ rq.pc # "resolve")
                            => /\ rq.frame.resolver = rq.urlconf
                               /\ rq._urlconfs = rq.urlconf

\* A request without urlconf is in its view, resolved in ROOT_URLCONF, on a
\* thread whose last request had left its own URLconf set.
C33_Witness ==
    \E r \in DOMAIN req :
        /\ req[r].pc = "view"
        /\ req[r].urlconf = NoUrlconf
        /\ req[r].entry_override
        /\ req[r].frame.resolver = ROOT_URLCONF
        /\ req[r]._urlconfs = ROOT_URLCONF


(***************************************************************************)
(* C34.  The template-response middleware and render() for any response.   *)
(***************************************************************************)
\* The response on line 265 has a callable render and went, or is going,
\* through lines 269-286: every process_template_response hook is called,
\* the first with that response, unless one raised or returned an invalid
\* value, and then render().
DeferredRender(rq) ==
    LET called == Events(rq, "process_template_response")
        stopped == /\ rq.pc = "engine_exit"
                   /\ IsException(rq.response)
                   /\ rq.response.by = "process_template_response"
    IN  /\ rq.pc \in {"template_response", "render"}
            \/ stopped \/ Called(rq, "render")
        /\ called # <<>> => rq.frame.template_inputs[1] = rq.frame.held
        /\ (rq.pc = "render" \/ Called(rq, "render"))
               => Len(called) = Len(_template_response_middleware)

\* C34: the process_template_response hooks and then render() are applied
\* to the response the engine holds after the process_view hooks, the view
\* and the process_exception hooks, whoever returned it (the view, a
\* process_view hook that short-circuited, a process_exception hook),
\* whenever that response has a callable render.
C34_DeferredRenderForAnyResponse ==
    \A r \in DOMAIN req :
        (InEngine(req[r]) /\ HasRender(req[r].frame.held))
            => DeferredRender(req[r])

\* The view raised, a process_exception hook returned a response with
\* render, both process_template_response hooks were called and the engine
\* returns that response rendered.
C34_Witness ==
    \E r \in DOMAIN req :
        /\ req[r].pc = "engine_exit"
        /\ req[r].frame.held.by = "process_exception"
        /\ HasRender(req[r].frame.held)
        /\ req[r].view_raised
        /\ Events(req[r], "process_template_response") = <<2, 1>>
        /\ req[r].response = [req[r].frame.held EXCEPT !.is_rendered = TRUE]


(***************************************************************************)
(* C35.  The thread-sharing count.                                         *)
(***************************************************************************)
\* C35: the thread-sharing count is never negative and equals the number of
\* inc_thread_sharing calls minus the number of dec_thread_sharing calls
\* that returned, whatever threads made the calls in whatever order; a
\* dec_thread_sharing call at count zero raises RuntimeError and leaves the
\* count as it was, and at a positive count it returns.
C35_CountNeverNegative ==
    /\ [](/\ wrapper._thread_sharing_count >= 0
          /\ wrapper._thread_sharing_count
                 = wrapper_calls.inc - wrapper_calls.dec)
    /\ [][(\E t \in Threads : dec_thread_sharing(t)) =>
             IF wrapper._thread_sharing_count = 0
             THEN /\ wrapper_calls'.last.raised = "RuntimeError"
                  /\ wrapper'._thread_sharing_count = 0
                  /\ wrapper_calls'.dec = wrapper_calls.dec
             ELSE /\ wrapper_calls'.last.raised = ""
                  /\ wrapper'._thread_sharing_count
                         = wrapper._thread_sharing_count - 1]_vars

\* After two increments and two decrements by other threads the count is
\* zero again and a third decrement was refused.
C35_Witness ==
    /\ wrapper_calls.inc = 2
    /\ wrapper_calls.dec = 2
    /\ wrapper._thread_sharing_count = 0
    /\ wrapper_calls.last.method = "dec_thread_sharing"
    /\ wrapper_calls.last.raised = "RuntimeError"
    /\ wrapper_calls.last.thread # wrapper._thread_ident


(***************************************************************************)
(* C36.  close() inside and outside an atomic block, and the next          *)
(* connect().                                                              *)
(***************************************************************************)
\* A call of close by a thread that passes validate_thread_sharing.
CloseStep ==
    \E t \in TransactionThreads, fault \in {"", "call"} :
        /\ validate_thread_sharing_raises(wrapper, t) = ""
        /\ close(t, fault)

ConnectStep ==
    \E t \in TransactionThreads, fault \in {"", "connect"} : connect(t, fault)

\* C36: a close() that passes thread validation empties run_on_commit; when
\* the connection was closed inside an atomic block before, or there is
\* none, it closes nothing; otherwise it closes the connection: inside an
\* atomic block the connection attribute is kept and closed_in_transaction
\* and needs_rollback are set, outside an atomic block connection becomes
\* None.  The next connect() resets in_atomic_block, savepoint_ids,
\* atomic_blocks, needs_rollback and closed_in_transaction.
C36_CloseAndReconnect ==
    [][/\ CloseStep =>
            /\ wrapper'.run_on_commit = <<>>
            /\ IF wrapper.closed_in_transaction
                      \/ wrapper.connection = NoConnection
               THEN /\ wrapper'.connection = wrapper.connection
                    /\ wrapper'.closed_in_transaction
                           = wrapper.closed_in_transaction
                    /\ wrapper'.needs_rollback = wrapper.needs_rollback
               ELSE IF wrapper.in_atomic_block
               THEN /\ wrapper'.connection =
                           [wrapper.connection EXCEPT !.closes = @ + 1]
                    /\ wrapper'.closed_in_transaction
                    /\ wrapper'.needs_rollback
               ELSE /\ wrapper'.connection = NoConnection
                    /\ ~wrapper'.closed_in_transaction
       /\ ConnectStep =>
            /\ ~wrapper'.in_atomic_block
            /\ wrapper'.savepoint_ids = <<>>
            /\ wrapper'.atomic_blocks = <<>>
            /\ ~wrapper'.needs_rollback
            /\ ~wrapper'.closed_in_transaction]_vars

\* Inside an atomic block a close() closed the connection although
\* connection.close() raised, and a later close() returned having closed
\* nothing.
C36_Witness ==
    /\ wrapper_calls.last.method = "close"
    /\ wrapper_calls.last.raised = ""
    /\ wrapper.errors_occurred
    /\ wrapper.in_atomic_block
    /\ wrapper.closed_in_transaction
    /\ wrapper.needs_rollback
    /\ wrapper.connection = [NewConnection EXCEPT !.closes = 1]
    /\ wrapper.run_on_commit = <<>>


(***************************************************************************)
(* C37.  on_commit inside and outside an atomic block.                     *)
(***************************************************************************)
\* The functions in run_on_commit.
QueuedIn(run_on_commit) ==
    {run_on_commit[k].func.id : k \in DOMAIN run_on_commit}

\* What get_autocommit() returns to on_commit: the autocommit attribute,
\* after connect() has set it from the settings when there was no
\* connection.
AutocommitSeen ==
    IF wrapper.connection = NoConnection
    THEN wrapper.settings_dict.AUTOCOMMIT
    ELSE wrapper.autocommit

\* C37: on_commit(func) with a callable func: inside an atomic block func is
\* put at the end of run_on_commit with the set of the savepoint ids active
\* then, and is not called; outside an atomic block with autocommit on func
\* is called at once and is not put on run_on_commit; outside an atomic
\* block with autocommit off the call raises TransactionManagementError and
\* func is neither called nor put on run_on_commit.
C37_OnCommit ==
    [][\A func \in Funcs(wrapper_calls.registered + 1), robust \in BOOLEAN :
          (/\ wrapper_calls'.last.method = "on_commit"
           /\ func.callable
           /\ on_commit("t1", func, robust, "")) =>
              IF wrapper.in_atomic_block
              THEN /\ wrapper'.run_on_commit =
                         Append(wrapper.run_on_commit,
                                [sids |-> {wrapper.savepoint_ids[k] :
                                              k \in DOMAIN wrapper.savepoint_ids},
                                 func |-> func, robust |-> robust])
                   /\ wrapper_calls'.last.called = <<>>
                   /\ wrapper_calls'.last.raised = ""
              ELSE IF AutocommitSeen
              THEN /\ wrapper_calls'.last.called = <<func.id>>
                   /\ func.id \notin QueuedIn(wrapper'.run_on_commit)
                   /\ wrapper_calls'.last.raised \in {"", "CallbackError"}
                   /\ wrapper_calls'.last.raised = "CallbackError" => ~robust
              ELSE /\ wrapper_calls'.last.raised = "TransactionManagementError"
                   /\ wrapper_calls'.last.called = <<>>
                   /\ wrapper'.run_on_commit = wrapper.run_on_commit]_vars

\* Inside an atomic block with a savepoint a second callback was queued
\* behind one registered before the savepoint.
C37_Witness ==
    /\ wrapper_calls.last.method = "on_commit"
    /\ wrapper_calls.last.raised = ""
    /\ wrapper.in_atomic_block
    /\ Len(wrapper.run_on_commit) = 2
    /\ wrapper.run_on_commit[1].sids = {}
    /\ wrapper.run_on_commit[2].sids = {Sid("t1", 1)}
    /\ wrapper.savepoint_ids = <<Sid("t1", 1)>>


(***************************************************************************)
(* C38.  run_on_commit after savepoint_rollback and rollback.              *)
(***************************************************************************)
\* after holds the entries of before that satisfy keep, each once and in the
\* order they have in before.
KeptInOrder(before, after, keep(_)) ==
    /\ {after[k] : k \in DOMAIN after}
           = {before[k] : k \in {j \in DOMAIN before : keep(before[j])}}
    /\ \A j, k \in DOMAIN after :
           j < k => \E m, n \in DOMAIN before :
                       /\ m < n
                       /\ before[m] = after[j]
                       /\ before[n] = after[k]

\* Savepoints are allowed: the backend has them and get_autocommit()
\* returns False.
SavepointAllowed ==
    wrapper.features.uses_savepoints /\ ~AutocommitSeen

\* C38: a savepoint_rollback(sid) that returns, when savepoints are allowed,
\* takes off run_on_commit exactly the callbacks registered while savepoint
\* sid was active and keeps every other callback in the order they had; a
\* rollback() that returns leaves run_on_commit empty.
C38_CallbacksAfterRollback ==
    [][/\ (/\ wrapper_calls'.last.method = "savepoint_rollback"
           /\ wrapper_calls'.last.raised = ""
           /\ SavepointAllowed)
             => \A sid \in Sids, fault \in {"", "call"} :
                   savepoint_rollback("t1", sid, fault)
                       => KeptInOrder(wrapper.run_on_commit,
                                      wrapper'.run_on_commit,
                                      LAMBDA hook : sid \notin hook.sids)
       /\ (/\ wrapper_calls'.last.method = "rollback"
           /\ wrapper_calls'.last.raised = ""
           /\ \E fault \in {"", "call"} : rollback("t1", fault))
             => wrapper'.run_on_commit = <<>>]_vars

\* savepoint_rollback of the inner of two savepoints returned: the last
\* callback registered is gone and the ones registered before it, none of
\* them under the inner savepoint, are left in their order.
C38_Witness ==
    /\ wrapper_calls.last.method = "savepoint_rollback"
    /\ wrapper_calls.last.raised = ""
    /\ wrapper.in_atomic_block
    /\ wrapper.savepoint_ids = <<Sid("t1", 1), Sid("t1", 2)>>
    /\ wrapper_calls.registered = MaxCallbacks
    /\ Len(wrapper.run_on_commit) = MaxCallbacks - 1
    /\ \A k \in DOMAIN wrapper.run_on_commit :
          /\ wrapper.run_on_commit[k].func.id = k
          /\ Sid("t1", 2) \notin wrapper.run_on_commit[k].sids


(***************************************************************************)
(* C39.  run_and_clear_commit_hooks.                                       *)
(***************************************************************************)
\* The call that just ended ran the callbacks queued in run_on_commit: it
\* called them from the first on, in the order of their registration, each
\* once; it logged only robust callbacks and went on after them; it called
\* them all and returned, or raised what a callback that is not robust
\* raised and called none behind that one; and run_on_commit is empty.
RanQueue(run_on_commit) ==
    LET last == wrapper_calls'.last
        n == Len(last.called)
    IN  /\ n <= Len(run_on_commit)
        /\ \A k \in 1..n : last.called[k] = run_on_commit[k].func.id
        /\ \A j, k \in 1..n : j < k => last.called[j] < last.called[k]
        /\ \A k \in DOMAIN last.logged :
              \E j \in 1..n : /\ last.called[j] = last.logged[k]
                              /\ run_on_commit[j].robust
                              /\ j < n \/ last.raised = ""
        /\ IF last.raised = ""
           THEN n = Len(run_on_commit)
           ELSE /\ last.raised = "CallbackError"
                /\ n > 0
                /\ ~run_on_commit[n].robust
        /\ wrapper'.run_on_commit = <<>>

\* C39: run_and_clear_commit_hooks, called directly or by set_autocommit(True)
\* after a commit, calls the queued callbacks in registration order, each at
\* most once; a robust callback that raises is logged and the callbacks
\* behind it are still called; a callback that is not robust and raises ends
\* the call with its exception, and the callbacks behind it are neither
\* called nor kept; run_on_commit then holds none of the callbacks queued
\* before.  With an atomic block active the call raises
\* TransactionManagementError and calls nothing.
C39_RunAndClear ==
    [][/\ (/\ wrapper_calls'.last.method = "run_and_clear_commit_hooks"
           /\ run_and_clear_commit_hooks("t1")) =>
            IF wrapper.in_atomic_block
            THEN /\ wrapper_calls'.last.raised = "TransactionManagementError"
                 /\ wrapper_calls'.last.called = <<>>
                 /\ wrapper'.run_on_commit = wrapper.run_on_commit
            ELSE RanQueue(wrapper.run_on_commit)
       /\ (/\ wrapper_calls'.last.method = "set_autocommit"
           /\ wrapper.run_commit_hooks_on_set_autocommit_on
           /\ ~wrapper.in_atomic_block
           /\ set_autocommit("t1", TRUE, ""))
             => /\ RanQueue(wrapper.run_on_commit)
                /\ wrapper_calls'.last.raised = ""
                       => ~wrapper'.run_commit_hooks_on_set_autocommit_on]_vars

\* The first callback, robust, raised and was logged; the second, not
\* robust, was still called and raised, which ended the call.
C39_Witness ==
    /\ wrapper_calls.last.method = "run_and_clear_commit_hooks"
    /\ wrapper_calls.last.called = <<1, 2>>
    /\ wrapper_calls.last.logged = <<1>>
    /\ wrapper_calls.last.raised = "CallbackError"
    /\ wrapper.run_on_commit = <<>>


(***************************************************************************)
(* C40.  A call that fails validate_thread_sharing.                        *)
(***************************************************************************)
\* The methods that call validate_thread_sharing.
GuardedMethods ==
    {"commit", "rollback", "close", "savepoint", "savepoint_rollback",
     "savepoint_commit"}

\* Thread t calls one of the methods in methods, and validate_thread_sharing
\* raises in it.
FailsValidation(methods) ==
    /\ \E t \in TransactionThreads :
          \/ commit(t, "") \/ commit(t, "call")
          \/ rollback(t, "")
          \/ close(t, "")
          \/ savepoint(t, "")
          \/ \E sid \in Sids : savepoint_rollback(t, sid, "")
          \/ \E sid \in Sids : savepoint_commit(t, sid, "")
    /\ wrapper_calls'.last.method \in methods
    /\ wrapper_calls'.last.raised = "DatabaseError"

StateKept ==
    /\ wrapper'.run_on_commit = wrapper.run_on_commit
    /\ wrapper'.savepoint_state = wrapper.savepoint_state
    /\ wrapper'.needs_rollback = wrapper.needs_rollback
    /\ wrapper'.errors_occurred = wrapper.errors_occurred
    /\ wrapper'.connection = wrapper.connection

\* C40: a call of commit, rollback, close, savepoint, savepoint_rollback or
\* savepoint_commit in which validate_thread_sharing raises leaves
\* run_on_commit, savepoint_state, needs_rollback, errors_occurred and
\* connection as they were before the call.
C40_FailedValidationKeepsState ==
    [][FailsValidation(GuardedMethods) => StateKept]_vars

====
